---- MODULE Spec2Model ----
(***************************************************************************)
(* Model of the baby dashboard server (src/server.js, the current version  *)
(* of the file: lines 422-886).  The persisted state is four JSON          *)
(* collections (names, wishlist, bets, offers) and the uploads directory.  *)
(* Every handler except POST /api/offers is synchronous and is one atomic  *)
(* action; POST /api/offers awaits the image transcoding and is three      *)
(* steps (start, transcoding in the thread pool, resumption).              *)
(*                                                                         *)
(* Strings that the code inspects character by character (free text, the   *)
(* data URL, file paths) are sequences of tokens; the JavaScript values    *)
(* undefined and null are the one-token sequences Undefined and Null.      *)
(***************************************************************************)
EXTENDS Integers, Sequences, FiniteSets, TLC

VARIABLES names, wishlist, bets, offers, uploads, files, clock, reqs, last, hist, track

vars == <<names, wishlist, bets, offers, uploads, files, clock, reqs, last, hist, track>>

(***************************************************************************)
(* Bounds of the model                                                     *)
(***************************************************************************)
MaxClock == 2
MaxVoteNames == 1
MaxOffers == 2
MaxTotal == 2
MaxVotes == 3

(***************************************************************************)
(* Program constants                                                       *)
(***************************************************************************)
ADMIN_PIN == "2026"
MaxNameLen == 50
MaxWishNameLen == 200
MaxPriceLen == 50
MaxNoteLen == 500
MaxDescriptionLen == 1000

Undefined == <<"#undefined">>
Null == <<"#null">>
NoHeader == "#undefined"
NoIp == "#undefined"

\* JavaScript truthiness of a string-or-undefined value: undefined, null and
\* the empty string are falsy.
Falsy(v) == v = Undefined \/ v = Null \/ v = <<>>

\* the number Infinity, which JSON.parse yields for a literal such as 1e999
Infinity == <<"#Infinity">>

\* an array holding one string: [ "..." ]
ArrayOf(text) == <<"#array">> \o text
IsArray(v) == v # <<>> /\ v[1] = "#array"

\* typeof v === 'string'
IsString(v) == v # Undefined /\ v # Null /\ v # Infinity /\ ~IsArray(v)

\* v.length > max: the length of a string is its number of characters, that
\* of the one-element array is 1, and a number has none (undefined > max is
\* false)
LengthOver(v, max) ==
    IF IsString(v) THEN Len(v) > max
    ELSE IF IsArray(v) THEN 1 > max
    ELSE FALSE

\* JSON.stringify writes Infinity as null
JsonValue(v) == IF v = Infinity THEN Null ELSE v

(***************************************************************************)
(* sanitize: replace every "<" by "&lt;" and every ">" by "&gt;", then     *)
(* trim white space at both ends; a non-string is returned as it is.       *)
(***************************************************************************)
RECURSIVE ReplaceAngles(_)
ReplaceAngles(s) ==
    IF s = <<>> THEN <<>>
    ELSE IF Head(s) = "<" THEN <<"&", "l", "t", ";">> \o ReplaceAngles(Tail(s))
    ELSE IF Head(s) = ">" THEN <<"&", "g", "t", ";">> \o ReplaceAngles(Tail(s))
    ELSE <<Head(s)>> \o ReplaceAngles(Tail(s))

RECURSIVE TrimStart(_)
TrimStart(s) ==
    IF s # <<>> /\ Head(s) = " " THEN TrimStart(Tail(s)) ELSE s

RECURSIVE TrimEnd(_)
TrimEnd(s) ==
    IF s # <<>> /\ s[Len(s)] = " " THEN TrimEnd(SubSeq(s, 1, Len(s) - 1)) ELSE s

Trim(s) == TrimEnd(TrimStart(s))

sanitize(str) == IF ~IsString(str) THEN str ELSE Trim(ReplaceAngles(str))

(***************************************************************************)
(* Sequence helpers standing for Array.prototype.find / filter             *)
(***************************************************************************)
\* index of the first record of list with the given id, 0 when there is none
FindIndex(list, id) ==
    IF \E i \in 1..Len(list) : list[i].id = id
    THEN CHOOSE i \in 1..Len(list) :
            list[i].id = id /\ \A j \in 1..(i - 1) : list[j].id # id
    ELSE 0

RECURSIVE FilterOutId(_, _)
FilterOutId(list, id) ==
    IF list = <<>> THEN <<>>
    ELSE IF Head(list).id = id THEN FilterOutId(Tail(list), id)
    ELSE <<Head(list)>> \o FilterOutId(Tail(list), id)

\* the history sequence h runs parallel to list: drop the same positions
RECURSIVE FilterParallel(_, _, _)
FilterParallel(list, h, id) ==
    IF list = <<>> THEN <<>>
    ELSE IF Head(list).id = id THEN FilterParallel(Tail(list), Tail(h), id)
    ELSE <<Head(h)>> \o FilterParallel(Tail(list), Tail(h), id)

\* Date.now().toString()
NowId == <<ToString(clock)>>

\* new Date().toISOString()
NowIso == <<ToString(clock), "Z">>

Response(route, status, body) == [route |-> route, status |-> status, body |-> body]

ErrorBody(msg) == <<[error |-> msg]>>
SuccessBody == <<[success |-> TRUE]>>

(***************************************************************************)
(* The voters' ledger votedIPs of a name record: the legacy array of       *)
(* addresses, or the object mapping address -> "up" | "down".              *)
(***************************************************************************)
EmptyMap == [ip \in {} |-> "up"]
LedgerArray(items) == [kind |-> "array", items |-> items, map |-> EmptyMap]
LedgerObject(map) == [kind |-> "object", items |-> <<>>, map |-> map]
LedgerMissing == [kind |-> "missing", items |-> <<>>, map |-> EmptyMap]

SeqRange(s) == {s[i] : i \in 1..Len(s)}

\* lines 590-600 with the legacy entries left out of the new map
NormalizeLedgerDropsLegacy(v) ==
    IF v.kind = "array" THEN LedgerObject(EmptyMap)
    ELSE IF v.kind = "missing" THEN LedgerObject(EmptyMap)
    ELSE v

\* lines 590-600: the legacy array becomes a map with every entry "up"
NormalizeLedger(v) ==
    IF v.kind = "array" THEN LedgerObject([ip \in SeqRange(v.items) |-> "up"])
    ELSE IF v.kind = "missing" THEN LedgerObject(EmptyMap)
    ELSE v

MapGet(m, k) == IF k \in DOMAIN m THEN m[k] ELSE "#undefined"
MapPut(m, k, v) == [x \in (DOMAIN m) \cup {k} |-> IF x = k THEN v ELSE m[x]]
MapDelete(m, k) == [x \in (DOMAIN m) \ {k} |-> m[x]]

Max(a, b) == IF a >= b THEN a ELSE b
MapGetNum(m, k) == IF k \in DOMAIN m THEN m[k] ELSE 0

(***************************************************************************)
(* Inputs                                                                  *)
(***************************************************************************)
Ip1 == "10.0.0.1"
Ip2 == "10.0.0.2"
ResolvableIps == {Ip1, Ip2}
Pins == {NoHeader, "0000", ADMIN_PIN}
VoteTypes == {"up", "down", "none", "sideways"}
AngleName == <<" ", "<", "b", ">">>
NameTexts == {Undefined, AngleName}
ClockIds == {<<ToString(t)>> : t \in 0..MaxClock}
ReqIds == {Undefined} \cup ClockIds

\* a name file written by the earlier version of the server (lines 134, 175):
\* the ledger is the array of the addresses that voted, in either direction
LegacyName ==
    [id |-> <<"0">>, name |-> <<"L", "e", "o">>, votes |-> 1, dislikes |-> 1,
     votedIPs |-> LedgerArray(<<Ip1, "unknown">>)]

InitialNames == {<<>>, <<LegacyName>>}

(***************************************************************************)
(* History kept beside names (one entry per record, same order): how the   *)
(* record came to be, whether the unresolvable identity voted on it, each  *)
(* resolvable voter's last accepted choice and the net change its requests *)
(* made to the two counters, the numbers of "up" and "down" requests of    *)
(* the unresolvable identity, and the latest accepted vote (who, what, and *)
(* whether it repeated the vote accepted just before it).                  *)
(***************************************************************************)
NoVote == [ip |-> NoIp, type |-> "none", again |-> FALSE]

NewHist(viaPost) ==
    [viaPost |-> viaPost, unknownVoted |-> FALSE, lastChoice |-> EmptyMap,
     up |-> [ip \in {} |-> 0], down |-> [ip \in {} |-> 0],
     unknownUp |-> 0, unknownDown |-> 0, latest |-> NoVote]

HistAfterVote(h, clientIP, type, before, after) ==
    LET latest == [ip |-> clientIP, type |-> type,
                   again |-> h.latest.ip = clientIP /\ h.latest.type = type]
    IN IF clientIP = "unknown"
       THEN [h EXCEPT
               !.unknownVoted = TRUE,
               !.unknownUp = IF type = "up" THEN @ + 1 ELSE @,
               !.unknownDown = IF type = "down" THEN @ + 1 ELSE @,
               !.latest = latest]
       ELSE [h EXCEPT
               !.lastChoice = MapPut(h.lastChoice, clientIP, type),
               !.up = MapPut(h.up, clientIP,
                             MapGetNum(h.up, clientIP) + after.votes - before.votes),
               !.down = MapPut(h.down, clientIP,
                               MapGetNum(h.down, clientIP) + after.dislikes - before.dislikes),
               !.latest = latest]

NoTrack == [stage |-> 0, idx |-> 0, ip |-> NoIp, v0 |-> 0, d0 |-> 0, pv |-> 0, pd |-> 0]

\* the voter followed through the sequence up, down, none on one record:
\* v0, d0 are the counters before its first vote, pv, pd those before its
\* latest vote; a vote of anybody else on the record ends the observation
NextTrack(idx, clientIP, type, previousVote, before) ==
    IF clientIP # "unknown" /\ previousVote = "#undefined" /\ type = "up"
    THEN [stage |-> 1, idx |-> idx, ip |-> clientIP,
          v0 |-> before.votes, d0 |-> before.dislikes,
          pv |-> before.votes, pd |-> before.dislikes]
    ELSE IF track.stage = 0 \/ track.idx # idx THEN track
    ELSE IF track.ip = clientIP /\ track.stage = 1 /\ type = "down"
    THEN [track EXCEPT !.stage = 2, !.pv = before.votes, !.pd = before.dislikes]
    ELSE IF track.ip = clientIP /\ track.stage = 2 /\ type = "none"
    THEN [track EXCEPT !.stage = 3, !.pv = before.votes, !.pd = before.dislikes]
    ELSE NoTrack

(***************************************************************************)
(* The collection files.  names, wishlist, bets and offers are the JSON    *)
(* arrays last written; files tells whether each file is still there and   *)
(* still holds that text.  A read of a file that is missing or does not    *)
(* parse yields the empty array; every write puts the file back.           *)
(***************************************************************************)
Collections == {"names", "wishlist", "bets", "offers"}

\* readData without the catch: whatever the file held is handed on
readDataNoCatch == names

readData == IF files["names"] = "ok" THEN names ELSE <<>>
readHist == IF files["names"] = "ok" THEN hist ELSE <<>>
readWishlist == IF files["wishlist"] = "ok" THEN wishlist ELSE <<>>
readBets == IF files["bets"] = "ok" THEN bets ELSE <<>>
readOffers == IF files["offers"] = "ok" THEN offers ELSE <<>>

\* fs.writeFileSync
Written(c) == [files EXCEPT ![c] = "ok"]

\* the file of collection c is removed from the data directory
RemoveFile(c) ==
    /\ files[c] = "ok"
    /\ files' = [files EXCEPT ![c] = "missing"]
    /\ UNCHANGED <<names, wishlist, bets, offers, uploads, clock, reqs, last, hist, track>>

\* the file of collection c is overwritten with text that is not JSON
CorruptFile(c) ==
    /\ files[c] = "ok"
    /\ files' = [files EXCEPT ![c] = "corrupt"]
    /\ UNCHANGED <<names, wishlist, bets, offers, uploads, clock, reqs, last, hist, track>>

(***************************************************************************)
(* GET /api/verify-pin                                                     *)
(***************************************************************************)
VerifyPin(pin) ==
    /\ last' = IF pin = ADMIN_PIN
               THEN Response("GET /api/verify-pin", 200, SuccessBody)
               ELSE Response("GET /api/verify-pin", 401, ErrorBody("Unauthorized"))
    /\ UNCHANGED <<names, wishlist, bets, offers, uploads, clock, reqs, hist, track, files>>

(***************************************************************************)
(* Names endpoints                                                         *)
(***************************************************************************)
\* GET /api/names
GetNames ==
    /\ last' = Response("GET /api/names", 200, readData)
    /\ UNCHANGED <<names, wishlist, bets, offers, uploads, clock, reqs, hist, track, files>>

\* lines 552-564 with the new record put in front (unshift for push)
PostNamesPrepends(name) ==
    /\ IF Falsy(name)
       THEN /\ last' = Response("POST /api/names", 400, ErrorBody("Name required"))
            /\ UNCHANGED <<names, hist, files>>
       ELSE IF LengthOver(name, MaxNameLen)
       THEN /\ last' = Response("POST /api/names", 400, ErrorBody("Name too long"))
            /\ UNCHANGED <<names, hist, files>>
       ELSE LET newName == [id |-> NowId, name |-> sanitize(name), votes |-> 0,
                            dislikes |-> 0, votedIPs |-> LedgerArray(<<>>)]
            IN /\ files' = Written("names")
               /\ names' = <<newName>> \o readData
               /\ hist' = <<NewHist(TRUE)>> \o readHist
               /\ last' = Response("POST /api/names", 201, <<newName>>)
    /\ UNCHANGED <<wishlist, bets, offers, uploads, clock, reqs, track>>

\* POST /api/names
PostNames(name) ==
    /\ IF Falsy(name)
       THEN /\ last' = Response("POST /api/names", 400, ErrorBody("Name required"))
            /\ UNCHANGED <<names, hist, files>>
       ELSE IF LengthOver(name, MaxNameLen)
       THEN /\ last' = Response("POST /api/names", 400, ErrorBody("Name too long"))
            /\ UNCHANGED <<names, hist, files>>
       ELSE LET newName == [id |-> NowId, name |-> sanitize(name), votes |-> 0,
                            dislikes |-> 0, votedIPs |-> LedgerArray(<<>>)]
            IN /\ files' = Written("names")
               /\ names' = Append(readData, newName)
               /\ hist' = Append(readHist, NewHist(TRUE))
               /\ last' = Response("POST /api/names", 201, <<newName>>)
    /\ UNCHANGED <<wishlist, bets, offers, uploads, clock, reqs, track>>

\* DELETE /api/names/:id
DeleteNamesNoGate(pin, id) ==
    /\ files' = Written("names")
    /\ names' = FilterOutId(readData, id)
    /\ hist' = FilterParallel(readData, readHist, id)
    /\ track' = NoTrack
    /\ last' = Response("DELETE /api/names", 200, SuccessBody)
    /\ UNCHANGED <<wishlist, bets, offers, uploads, clock, reqs>>

DeleteNames(pin, id) ==
    /\ IF pin # ADMIN_PIN
       THEN /\ last' = Response("DELETE /api/names", 401, ErrorBody("Unauthorized"))
            /\ UNCHANGED <<names, hist, track, files>>
       ELSE /\ files' = Written("names")
            /\ names' = FilterOutId(readData, id)
            /\ hist' = FilterParallel(readData, readHist, id)
            /\ track' = NoTrack
            /\ last' = Response("DELETE /api/names", 200, SuccessBody)
    /\ UNCHANGED <<wishlist, bets, offers, uploads, clock, reqs>>

\* lines 602-618 with the previous vote never taken back
ApplyVoteNoDecrement(rec, clientIP, type) ==
    LET ledger == NormalizeLedger(rec.votedIPs)
    IN IF type = "none"
       THEN [rec EXCEPT !.votedIPs = LedgerObject(MapDelete(ledger.map, clientIP))]
       ELSE [rec EXCEPT !.votes = IF type = "up" THEN rec.votes + 1 ELSE rec.votes,
                        !.dislikes = IF type = "down" THEN rec.dislikes + 1
                                     ELSE rec.dislikes,
                        !.votedIPs = LedgerObject(MapPut(ledger.map, clientIP, type))]

\* lines 602-618 with the withdrawal forgetting to take the previous vote back
ApplyVoteNoneKeepsCount(rec, clientIP, type) ==
    LET ledger == NormalizeLedger(rec.votedIPs)
        previousVote == MapGet(ledger.map, clientIP)
        known == clientIP # "unknown" /\ previousVote # "#undefined"
        votes1 == IF known /\ previousVote = "up" THEN Max(0, rec.votes - 1) ELSE rec.votes
        dislikes1 == IF known /\ previousVote = "down"
                     THEN Max(0, rec.dislikes - 1) ELSE rec.dislikes
    IN IF type = "none"
       THEN [rec EXCEPT !.votedIPs = LedgerObject(MapDelete(ledger.map, clientIP))]
       ELSE [rec EXCEPT !.votes = IF type = "up" THEN votes1 + 1 ELSE votes1,
                        !.dislikes = IF type = "down" THEN dislikes1 + 1 ELSE dislikes1,
                        !.votedIPs = LedgerObject(MapPut(ledger.map, clientIP, type))]

\* lines 602-618 with the ledger started afresh at every vote
ApplyVoteForgetsOthers(rec, clientIP, type) ==
    LET ledger == NormalizeLedger(rec.votedIPs)
        previousVote == MapGet(ledger.map, clientIP)
        known == clientIP # "unknown" /\ previousVote # "#undefined"
        votes1 == IF known /\ previousVote = "up" THEN Max(0, rec.votes - 1) ELSE rec.votes
        dislikes1 == IF known /\ previousVote = "down"
                     THEN Max(0, rec.dislikes - 1) ELSE rec.dislikes
    IN IF type = "none"
       THEN [rec EXCEPT !.votes = votes1, !.dislikes = dislikes1,
                        !.votedIPs = LedgerObject(EmptyMap)]
       ELSE [rec EXCEPT !.votes = IF type = "up" THEN votes1 + 1 ELSE votes1,
                        !.dislikes = IF type = "down" THEN dislikes1 + 1 ELSE dislikes1,
                        !.votedIPs = LedgerObject(MapPut(EmptyMap, clientIP, type))]

\* lines 602-618 with the sentinel "unknown" treated as any other address
ApplyVoteUnknownIsKnown(rec, clientIP, type) ==
    LET ledger == NormalizeLedger(rec.votedIPs)
        previousVote == MapGet(ledger.map, clientIP)
        known == previousVote # "#undefined"
        votes1 == IF known /\ previousVote = "up" THEN Max(0, rec.votes - 1) ELSE rec.votes
        dislikes1 == IF known /\ previousVote = "down"
                     THEN Max(0, rec.dislikes - 1) ELSE rec.dislikes
    IN IF type = "none"
       THEN [rec EXCEPT !.votes = votes1, !.dislikes = dislikes1,
                        !.votedIPs = LedgerObject(MapDelete(ledger.map, clientIP))]
       ELSE [rec EXCEPT !.votes = IF type = "up" THEN votes1 + 1 ELSE votes1,
                        !.dislikes = IF type = "down" THEN dislikes1 + 1 ELSE dislikes1,
                        !.votedIPs = LedgerObject(MapPut(ledger.map, clientIP, type))]

\* lines 602-618 with the decrements not floored (no Math.max)
ApplyVoteNoFloor(rec, clientIP, type) ==
    LET ledger == NormalizeLedger(rec.votedIPs)
        previousVote == MapGet(ledger.map, clientIP)
        known == clientIP # "unknown" /\ previousVote # "#undefined"
        votes1 == IF known /\ previousVote = "up" THEN rec.votes - 1 ELSE rec.votes
        dislikes1 == IF known /\ previousVote = "down" THEN rec.dislikes - 1 ELSE rec.dislikes
    IN IF type = "none"
       THEN [rec EXCEPT !.votes = votes1, !.dislikes = dislikes1,
                        !.votedIPs = LedgerObject(MapDelete(ledger.map, clientIP))]
       ELSE [rec EXCEPT !.votes = IF type = "up" THEN votes1 + 1 ELSE votes1,
                        !.dislikes = IF type = "down" THEN dislikes1 + 1 ELSE dislikes1,
                        !.votedIPs = LedgerObject(MapPut(ledger.map, clientIP, type))]

\* lines 602-618: the record after the vote of clientIP has been applied
ApplyVote(rec, clientIP, type) ==
    LET ledger == NormalizeLedger(rec.votedIPs)
        previousVote == MapGet(ledger.map, clientIP)
        known == clientIP # "unknown" /\ previousVote # "#undefined"
        votes1 == IF known /\ previousVote = "up" THEN Max(0, rec.votes - 1) ELSE rec.votes
        dislikes1 == IF known /\ previousVote = "down"
                     THEN Max(0, rec.dislikes - 1) ELSE rec.dislikes
    IN IF type = "none"
       THEN [rec EXCEPT !.votes = votes1, !.dislikes = dislikes1,
                        !.votedIPs = LedgerObject(MapDelete(ledger.map, clientIP))]
       ELSE [rec EXCEPT !.votes = IF type = "up" THEN votes1 + 1 ELSE votes1,
                        !.dislikes = IF type = "down" THEN dislikes1 + 1 ELSE dislikes1,
                        !.votedIPs = LedgerObject(MapPut(ledger.map, clientIP, type))]

\* req.ip || 'unknown'
ClientIP(ip) == IF ip = NoIp THEN "unknown" ELSE ip

PreviousVote(rec, clientIP) == MapGet(NormalizeLedger(rec.votedIPs).map, clientIP)

\* the earlier version of the handler (lines 152-182 as far as the current
\* ledger allows): a second vote of a known address is refused with 403
PostVoteRefusesDuplicate(ip, id, type) ==
    LET clientIP == ClientIP(ip)
        idx == FindIndex(readData, id)
    IN /\ IF Falsy(id) \/ type \notin {"up", "down", "none"}
          THEN /\ last' = Response("POST /api/vote", 400, ErrorBody("Invalid ID or type"))
               /\ UNCHANGED <<names, hist, track, files>>
          ELSE IF idx = 0
          THEN /\ last' = Response("POST /api/vote", 404, ErrorBody("Name not found"))
               /\ UNCHANGED <<names, hist, track, files>>
          ELSE IF /\ clientIP # "unknown" /\ type # "none"
                  /\ PreviousVote(readData[idx], clientIP) # "#undefined"
          THEN /\ last' = Response("POST /api/vote", 403, ErrorBody("You have already voted"))
               /\ UNCHANGED <<names, hist, track, files>>
          ELSE LET before == readData[idx]
                   after == ApplyVote(before, clientIP, type)
               IN /\ files' = Written("names")
                  /\ names' = [readData EXCEPT ![idx] = after]
                  /\ hist' = [readHist EXCEPT
                                ![idx] = HistAfterVote(@, clientIP, type, before, after)]
                  /\ track' = NextTrack(idx, clientIP, type,
                                        PreviousVote(before, clientIP), before)
                  /\ last' = Response("POST /api/vote", 200, <<after>>)
       /\ UNCHANGED <<wishlist, bets, offers, uploads, clock, reqs>>

\* lines 578-588 without the test of the type (line 581)
PostVoteAnyType(ip, id, type) ==
    LET clientIP == ClientIP(ip)
        idx == FindIndex(readData, id)
    IN /\ IF Falsy(id)
          THEN /\ last' = Response("POST /api/vote", 400, ErrorBody("Invalid ID or type"))
               /\ UNCHANGED <<names, hist, track, files>>
          ELSE IF idx = 0
          THEN /\ last' = Response("POST /api/vote", 404, ErrorBody("Name not found"))
               /\ UNCHANGED <<names, hist, track, files>>
          ELSE LET before == readData[idx]
                   after == ApplyVote(before, clientIP, type)
               IN /\ files' = Written("names")
                  /\ names' = [readData EXCEPT ![idx] = after]
                  /\ hist' = [readHist EXCEPT
                                ![idx] = HistAfterVote(@, clientIP, type, before, after)]
                  /\ track' = NextTrack(idx, clientIP, type,
                                        PreviousVote(before, clientIP), before)
                  /\ last' = Response("POST /api/vote", 200, <<after>>)
       /\ UNCHANGED <<wishlist, bets, offers, uploads, clock, reqs>>

\* POST /api/vote
PostVote(ip, id, type) ==
    LET clientIP == ClientIP(ip)
        idx == FindIndex(readData, id)
    IN /\ IF Falsy(id) \/ type \notin {"up", "down", "none"}
          THEN /\ last' = Response("POST /api/vote", 400, ErrorBody("Invalid ID or type"))
               /\ UNCHANGED <<names, hist, track, files>>
          ELSE IF idx = 0
          THEN /\ last' = Response("POST /api/vote", 404, ErrorBody("Name not found"))
               /\ UNCHANGED <<names, hist, track, files>>
          ELSE LET before == readData[idx]
                   after == ApplyVote(before, clientIP, type)
               IN /\ files' = Written("names")
                  /\ names' = [readData EXCEPT ![idx] = after]
                  /\ hist' = [readHist EXCEPT
                                ![idx] = HistAfterVote(@, clientIP, type, before, after)]
                  /\ track' = NextTrack(idx, clientIP, type,
                                        PreviousVote(before, clientIP), before)
                  /\ last' = Response("POST /api/vote", 200, <<after>>)
       /\ UNCHANGED <<wishlist, bets, offers, uploads, clock, reqs>>

\* the clock that Date.now() reads moves on between requests, or does not
Tick ==
    /\ clock < MaxClock
    /\ clock' = clock + 1
    /\ UNCHANGED <<names, wishlist, bets, offers, uploads, reqs, last, hist, track, files>>

(***************************************************************************)
(* Wishlist endpoints                                                      *)
(***************************************************************************)
SchemeTokens == {"http:", "https:", "ftp:", "javascript:"}
SpecialSchemes == {"http:", "https:", "ftp:"}

\* new URL(link).protocol, "#throws" when the constructor throws: the input
\* is stripped of outer white space, must begin with a scheme, and a special
\* scheme must be followed by a host
UrlProtocol(link) ==
    LET s == Trim(link)
    IN IF s = <<>> \/ s[1] \notin SchemeTokens THEN "#throws"
       ELSE IF s[1] \in SpecialSchemes /\ Len(s) = 1 THEN "#throws"
       ELSE s[1]

OrEmpty(v) == IF Falsy(v) THEN <<>> ELSE v

\* GET /api/wishlist
GetWishlist ==
    /\ last' = Response("GET /api/wishlist", 200, readWishlist)
    /\ UNCHANGED <<names, wishlist, bets, offers, uploads, clock, reqs, hist, track, files>>

\* lines 636-650 without the test of the protocol (line 645)
PostWishlistAnyScheme(pin, name, link, price, note) ==
    LET Reject(status, msg) ==
            /\ last' = Response("POST /api/wishlist", status, ErrorBody(msg))
            /\ UNCHANGED <<wishlist, files>>
        newItem == [id |-> NowId, name |-> sanitize(name), link |-> sanitize(link),
                    price |-> OrEmpty(sanitize(price)), note |-> OrEmpty(sanitize(note)),
                    reserved |-> FALSE, reservedBy |-> Null, date |-> NowIso]
    IN /\ IF pin # ADMIN_PIN THEN Reject(401, "Unauthorized")
          ELSE IF Falsy(name) \/ Falsy(link) THEN Reject(400, "Name and Link required")
          ELSE IF LengthOver(name, MaxWishNameLen) THEN Reject(400, "Name too long")
          ELSE IF ~Falsy(price) /\ LengthOver(price, MaxPriceLen) THEN Reject(400, "Price too long")
          ELSE IF ~Falsy(note) /\ LengthOver(note, MaxNoteLen) THEN Reject(400, "Note too long")
          ELSE IF UrlProtocol(link) = "#throws" THEN Reject(400, "Invalid link format.")
          ELSE /\ files' = Written("wishlist")
               /\ wishlist' = Append(readWishlist, newItem)
               /\ last' = Response("POST /api/wishlist", 201, <<newItem>>)
       /\ UNCHANGED <<names, bets, offers, uploads, clock, reqs, hist, track>>

\* POST /api/wishlist
PostWishlist(pin, name, link, price, note) ==
    LET Reject(status, msg) ==
            /\ last' = Response("POST /api/wishlist", status, ErrorBody(msg))
            /\ UNCHANGED <<wishlist, files>>
        newItem == [id |-> NowId, name |-> sanitize(name), link |-> sanitize(link),
                    price |-> OrEmpty(sanitize(price)), note |-> OrEmpty(sanitize(note)),
                    reserved |-> FALSE, reservedBy |-> Null, date |-> NowIso]
    IN /\ IF pin # ADMIN_PIN THEN Reject(401, "Unauthorized")
          ELSE IF Falsy(name) \/ Falsy(link) THEN Reject(400, "Name and Link required")
          ELSE IF LengthOver(name, MaxWishNameLen) THEN Reject(400, "Name too long")
          ELSE IF ~Falsy(price) /\ LengthOver(price, MaxPriceLen) THEN Reject(400, "Price too long")
          ELSE IF ~Falsy(note) /\ LengthOver(note, MaxNoteLen) THEN Reject(400, "Note too long")
          ELSE IF UrlProtocol(link) = "#throws" THEN Reject(400, "Invalid link format.")
          ELSE IF UrlProtocol(link) \notin {"http:", "https:"}
          THEN Reject(400, "Invalid link protocol")
          ELSE /\ files' = Written("wishlist")
               /\ wishlist' = Append(readWishlist, newItem)
               /\ last' = Response("POST /api/wishlist", 201, <<newItem>>)
       /\ UNCHANGED <<names, bets, offers, uploads, clock, reqs, hist, track>>

\* lines 683-687 with the reservation set and never taken back
PostReserveNoToggle(id, reservedBy) ==
    LET idx == FindIndex(readWishlist, id)
        by == sanitize(reservedBy)
    IN /\ IF Falsy(id)
          THEN /\ last' = Response("POST /api/wishlist/reserve", 400, ErrorBody("ID required"))
               /\ UNCHANGED <<wishlist, files>>
          ELSE IF idx = 0
          THEN /\ last' = Response("POST /api/wishlist/reserve", 404, ErrorBody("Not found"))
               /\ UNCHANGED <<wishlist, files>>
          ELSE LET item == readWishlist[idx]
                   reserved == TRUE
                   item1 == [item EXCEPT
                               !.reserved = reserved,
                               !.reservedBy =
                                   JsonValue(IF reserved
                                             THEN (IF Falsy(by) THEN <<"Anonymous">> ELSE by)
                                             ELSE Null)]
               IN /\ files' = Written("wishlist")
                  /\ wishlist' = [readWishlist EXCEPT ![idx] = item1]
                  /\ last' = Response("POST /api/wishlist/reserve", 200, <<item1>>)
       /\ UNCHANGED <<names, bets, offers, uploads, clock, reqs, hist, track>>

\* POST /api/wishlist/reserve
PostReserve(id, reservedBy) ==
    LET idx == FindIndex(readWishlist, id)
        by == sanitize(reservedBy)
    IN /\ IF Falsy(id)
          THEN /\ last' = Response("POST /api/wishlist/reserve", 400, ErrorBody("ID required"))
               /\ UNCHANGED <<wishlist, files>>
          ELSE IF idx = 0
          THEN /\ last' = Response("POST /api/wishlist/reserve", 404, ErrorBody("Not found"))
               /\ UNCHANGED <<wishlist, files>>
          ELSE LET item == readWishlist[idx]
                   reserved == ~item.reserved
                   item1 == [item EXCEPT
                               !.reserved = reserved,
                               !.reservedBy =
                                   JsonValue(IF reserved
                                             THEN (IF Falsy(by) THEN <<"Anonymous">> ELSE by)
                                             ELSE Null)]
               IN /\ files' = Written("wishlist")
                  /\ wishlist' = [readWishlist EXCEPT ![idx] = item1]
                  /\ last' = Response("POST /api/wishlist/reserve", 200, <<item1>>)
       /\ UNCHANGED <<names, bets, offers, uploads, clock, reqs, hist, track>>

\* lines 694-706 with the filtered list written by writeBets
DeleteWishlistWritesBets(pin, id) ==
    LET list == FilterOutId(readWishlist, id)
    IN /\ IF pin # ADMIN_PIN
          THEN /\ last' = Response("DELETE /api/wishlist", 401, ErrorBody("Unauthorized"))
               /\ UNCHANGED <<bets, files>>
          ELSE IF Len(list) = Len(readWishlist)
          THEN /\ last' = Response("DELETE /api/wishlist", 404, ErrorBody("Not found"))
               /\ UNCHANGED <<bets, files>>
          ELSE /\ files' = Written("bets")
               /\ bets' = list
               /\ last' = Response("DELETE /api/wishlist", 200, SuccessBody)
       /\ UNCHANGED <<names, wishlist, offers, uploads, clock, reqs, hist, track>>

\* DELETE /api/wishlist/:id
DeleteWishlist(pin, id) ==
    LET list == FilterOutId(readWishlist, id)
    IN /\ IF pin # ADMIN_PIN
          THEN /\ last' = Response("DELETE /api/wishlist", 401, ErrorBody("Unauthorized"))
               /\ UNCHANGED <<wishlist, files>>
          ELSE IF Len(list) = Len(readWishlist)
          THEN /\ last' = Response("DELETE /api/wishlist", 404, ErrorBody("Not found"))
               /\ UNCHANGED <<wishlist, files>>
          ELSE /\ files' = Written("wishlist")
               /\ wishlist' = list
               /\ last' = Response("DELETE /api/wishlist", 200, SuccessBody)
       /\ UNCHANGED <<names, bets, offers, uploads, clock, reqs, hist, track>>

(***************************************************************************)
(* Betting game endpoints                                                  *)
(***************************************************************************)
Digits == {ToString(d) : d \in 0..9}
DigitValue(c) == CHOOSE d \in 0..9 : ToString(d) = c

\* JSON writes NaN as null; NullNumber stands for that null
NullNumber == -1

RECURSIVE LeadingDigits(_, _)
LeadingDigits(s, acc) ==
    IF s # <<>> /\ Head(s) \in Digits
    THEN LeadingDigits(Tail(s), 10 * acc + DigitValue(Head(s)))
    ELSE acc

\* parseInt of a string of decimal digits followed by anything; NaN (written
\* to the file as null) when no digit leads
ParseInt(s) ==
    LET t == TrimStart(s)
    IN IF t # <<>> /\ Head(t) \in Digits THEN LeadingDigits(t, 0) ELSE NullNumber

\* GET /api/bets
GetBets ==
    /\ last' = Response("GET /api/bets", 200, readBets)
    /\ UNCHANGED <<names, wishlist, bets, offers, uploads, clock, reqs, hist, track, files>>

\* lines 736-765 with a bet of the same name replaced instead of a new one
\* appended
PostBetsReplacesSameName(name, date, time, weight, size) ==
    LET t == sanitize(time)
        newBet == [id |-> NowId, name |-> sanitize(name), date |-> sanitize(date),
                   time |-> IF Falsy(t) THEN <<"1", "2", ":", "0", "0">> ELSE t,
                   weight |-> ParseInt(weight), size |-> ParseInt(size),
                   timestamp |-> NowIso]
        OtherName(b) == b.name # newBet.name
    IN /\ IF Falsy(name) \/ Falsy(date) \/ Falsy(weight) \/ Falsy(size)
          THEN /\ last' = Response("POST /api/bets", 400, ErrorBody("Missing fields"))
               /\ UNCHANGED <<bets, files>>
          ELSE IF LengthOver(name, MaxNameLen)
          THEN /\ last' = Response("POST /api/bets", 400, ErrorBody("Name too long"))
               /\ UNCHANGED <<bets, files>>
          ELSE /\ files' = Written("bets")
               /\ bets' = Append(SelectSeq(readBets, OtherName), newBet)
               /\ last' = Response("POST /api/bets", 201, <<newBet>>)
       /\ UNCHANGED <<names, wishlist, offers, uploads, clock, reqs, hist, track>>

\* POST /api/bets
PostBets(name, date, time, weight, size) ==
    LET t == sanitize(time)
        newBet == [id |-> NowId, name |-> sanitize(name), date |-> sanitize(date),
                   time |-> IF Falsy(t) THEN <<"1", "2", ":", "0", "0">> ELSE t,
                   weight |-> ParseInt(weight), size |-> ParseInt(size),
                   timestamp |-> NowIso]
    IN /\ IF Falsy(name) \/ Falsy(date) \/ Falsy(weight) \/ Falsy(size)
          THEN /\ last' = Response("POST /api/bets", 400, ErrorBody("Missing fields"))
               /\ UNCHANGED <<bets, files>>
          ELSE IF LengthOver(name, MaxNameLen)
          THEN /\ last' = Response("POST /api/bets", 400, ErrorBody("Name too long"))
               /\ UNCHANGED <<bets, files>>
          ELSE /\ files' = Written("bets")
               /\ bets' = Append(readBets, newBet)
               /\ last' = Response("POST /api/bets", 201, <<newBet>>)
       /\ UNCHANGED <<names, wishlist, offers, uploads, clock, reqs, hist, track>>

\* DELETE /api/bets/:id
DeleteBets(pin, id) ==
    LET list == FilterOutId(readBets, id)
    IN /\ IF pin # ADMIN_PIN
          THEN /\ last' = Response("DELETE /api/bets", 401, ErrorBody("Unauthorized"))
               /\ UNCHANGED <<bets, files>>
          ELSE IF Len(list) = Len(readBets)
          THEN /\ last' = Response("DELETE /api/bets", 404, ErrorBody("Not found"))
               /\ UNCHANGED <<bets, files>>
          ELSE /\ files' = Written("bets")
               /\ bets' = list
               /\ last' = Response("DELETE /api/bets", 200, SuccessBody)
       /\ UNCHANGED <<names, wishlist, offers, uploads, clock, reqs, hist, track>>

(***************************************************************************)
(* Offers endpoints                                                        *)
(***************************************************************************)
\* JSON.stringify leaves out every key whose value is undefined
JsonObject(o) == [k \in {x \in DOMAIN o : o[x] # Undefined} |-> o[k]]
JsonArray(list) == [i \in 1..Len(list) |-> JsonObject(list[i])]

\* { ...o, email: undefined }
WithEmailUndefined(o) ==
    [k \in (DOMAIN o) \cup {"email"} |-> IF k = "email" THEN Undefined ELSE o[k]]

\* the public listing with the records passed on as stored
PublicOffersKeepEmail(list) == JsonArray(list)

PublicOffers(list) == JsonArray([i \in 1..Len(list) |-> WithEmailUndefined(list[i])])

\* GET /api/offers
GetOffers(pin) ==
    /\ last' = IF pin = ADMIN_PIN
               THEN Response("GET /api/offers admin", 200, JsonArray(readOffers))
               ELSE Response("GET /api/offers public", 200, PublicOffers(readOffers))
    /\ UNCHANGED <<names, wishlist, bets, offers, uploads, clock, reqs, hist, track, files>>

\* the characters of the class [A-Za-z-+\/], as tokens
MimeTokens == {"image", "/", "png", "jpeg", "+", "-"}

\* imageBase64.match(/^data:([A-Za-z-+\/]+);base64,(.+)$/): the index of the
\* token ";base64," when the string matches, 0 when it does not ("." does
\* not match a line break)
DataUrlMatchUnanchored(s) ==
    IF \E k \in 1..(Len(s) - 1) : s[k] = ";base64,"
    THEN CHOOSE k \in 1..(Len(s) - 1) : s[k] = ";base64,"
    ELSE 0

DataUrlMatch(s) ==
    IF \E k \in 3..(Len(s) - 1) :
          /\ s[1] = "data:"
          /\ \A i \in 2..(k - 1) : s[i] \in MimeTokens
          /\ s[k] = ";base64,"
          /\ \A i \in (k + 1)..Len(s) : s[i] # "\n"
    THEN CHOOSE k \in 3..(Len(s) - 1) :
          /\ \A i \in 2..(k - 1) : s[i] \in MimeTokens
          /\ s[k] = ";base64,"
    ELSE 0

\* Buffer.from(payload, 'base64'): each group of base64 text to its bytes
Base64Bytes(tok) ==
    IF tok = "iVBORw0KGgo" THEN "png-bytes"
    ELSE IF tok = "AAAA" THEN "zero-bytes"
    ELSE "other-bytes"

Base64Decode(payload) == [i \in 1..Len(payload) |-> Base64Bytes(payload[i])]

\* sharp(buffer)...toFile(): the library decodes the buffer when it begins
\* with the bytes of an image; when it rejects, it has written no file
SharpDecodes(buffer) == buffer # <<>> /\ buffer[1] = "png-bytes"

FileName(id) == id \o <<".jpg">>
ImageUrl(filename) == <<"/uploads/">> \o filename

\* String.prototype.replace(pattern, ''): the first occurrence is removed
RECURSIVE ReplaceFirst(_, _)
ReplaceFirst(s, tok) ==
    IF s = <<>> THEN <<>>
    ELSE IF Head(s) = tok THEN Tail(s)
    ELSE <<Head(s)>> \o ReplaceFirst(Tail(s), tok)

\* the requests to POST /api/offers that can be in progress at once
Slots == {1, 2}

IdleReq ==
    [pc |-> "idle", id |-> <<>>, name |-> <<>>, email |-> <<>>, description |-> <<>>,
     buffer |-> <<>>]

InFlight == {p \in DOMAIN reqs : reqs[p].pc # "idle"}

\* POST /api/offers up to the await of the transcoding (lines 811-835)
PostOffersStart(p, name, email, description, imageBase64) ==
    LET Reject(msg) ==
            /\ last' = Response("POST /api/offers", 400, ErrorBody(msg))
            /\ UNCHANGED reqs
        k == DataUrlMatch(imageBase64)
    IN /\ reqs[p].pc = "idle"
       /\ IF Falsy(name) \/ Falsy(description) \/ Falsy(imageBase64)
          THEN Reject("Missing fields")
          ELSE IF LengthOver(name, MaxNameLen) THEN Reject("Name too long")
          ELSE IF LengthOver(description, MaxDescriptionLen) THEN Reject("Description too long")
          ELSE IF k = 0 THEN Reject("Invalid image format")
          ELSE /\ reqs' = [reqs EXCEPT ![p] =
                             [pc |-> "await", id |-> NowId, name |-> sanitize(name),
                              email |-> sanitize(email),
                              description |-> sanitize(description),
                              buffer |-> Base64Decode(SubSeq(imageBase64, k + 1,
                                                             Len(imageBase64)))]]
               /\ UNCHANGED last
       /\ UNCHANGED <<names, wishlist, bets, offers, uploads, clock, hist, track, files>>

\* the transcoding, in the library's thread pool (lines 832-835)
SharpToFile(p) ==
    /\ reqs[p].pc = "await"
    /\ IF SharpDecodes(reqs[p].buffer)
       THEN /\ uploads' = uploads \cup {FileName(reqs[p].id)}
            /\ reqs' = [reqs EXCEPT ![p].pc = "resolved"]
       ELSE /\ reqs' = [reqs EXCEPT ![p].pc = "rejected"]
            /\ UNCHANGED uploads
    /\ UNCHANGED <<names, wishlist, bets, offers, clock, last, hist, track, files>>

\* lines 836-856 with the list read before the await instead of after it: the
\* records of the uploads that began later than this one are not in it
PostOffersResumeStaleList(p) ==
    LET r == reqs[p]
        newOffer == [id |-> r.id, name |-> r.name, email |-> r.email,
                     description |-> r.description,
                     imageUrl |-> ImageUrl(FileName(r.id)), timestamp |-> NowIso]
        Older(o) == ParseInt(o.id) <= ParseInt(r.id)
    IN /\ r.pc \in {"resolved", "rejected"}
       /\ IF r.pc = "rejected"
          THEN /\ last' = Response("POST /api/offers", 400, ErrorBody("Invalid image data"))
               /\ UNCHANGED <<offers, files>>
          ELSE /\ files' = Written("offers")
               /\ offers' = JsonArray(Append(SelectSeq(readOffers, Older), newOffer))
               /\ last' = Response("POST /api/offers", 201, <<JsonObject(newOffer)>>)
       /\ reqs' = [reqs EXCEPT ![p] = IdleReq]
       /\ UNCHANGED <<names, wishlist, bets, uploads, clock, hist, track>>

\* lines 831-856 without the catch: when the transcoding fails the promise
\* of the handler rejects, nothing answers the request, and it stays open
PostOffersResumeNoCatch(p) ==
    LET r == reqs[p]
        newOffer == [id |-> r.id, name |-> r.name, email |-> r.email,
                     description |-> r.description,
                     imageUrl |-> ImageUrl(FileName(r.id)), timestamp |-> NowIso]
    IN /\ r.pc = "resolved"
       /\ files' = Written("offers")
       /\ offers' = JsonArray(Append(readOffers, newOffer))
       /\ last' = Response("POST /api/offers", 201, <<JsonObject(newOffer)>>)
       /\ reqs' = [reqs EXCEPT ![p] = IdleReq]
       /\ UNCHANGED <<names, wishlist, bets, uploads, clock, hist, track>>

\* POST /api/offers resumed after the await (lines 836-856)
PostOffersResume(p) ==
    LET r == reqs[p]
        newOffer == [id |-> r.id, name |-> r.name, email |-> r.email,
                     description |-> r.description,
                     imageUrl |-> ImageUrl(FileName(r.id)), timestamp |-> NowIso]
    IN /\ r.pc \in {"resolved", "rejected"}
       /\ IF r.pc = "rejected"
          THEN /\ last' = Response("POST /api/offers", 400, ErrorBody("Invalid image data"))
               /\ UNCHANGED <<offers, files>>
          ELSE /\ files' = Written("offers")
               /\ offers' = JsonArray(Append(readOffers, newOffer))
               /\ last' = Response("POST /api/offers", 201, <<JsonObject(newOffer)>>)
       /\ reqs' = [reqs EXCEPT ![p] = IdleReq]
       /\ UNCHANGED <<names, wishlist, bets, uploads, clock, hist, track>>

\* lines 860-881 without the try/catch around the deletion of the file: the
\* exception ends the handler before the collection is written
DeleteOffersUnlinkUncaught(pin, id, unlinkThrows) ==
    LET idx == FindIndex(readOffers, id)
    IN /\ IF pin # ADMIN_PIN
          THEN /\ last' = Response("DELETE /api/offers", 401, ErrorBody("Unauthorized"))
               /\ UNCHANGED <<offers, uploads, files>>
          ELSE IF idx = 0
          THEN /\ last' = Response("DELETE /api/offers", 404, ErrorBody("Not found"))
               /\ UNCHANGED <<offers, uploads, files>>
          ELSE LET filePath == ReplaceFirst(readOffers[idx].imageUrl, "/uploads/")
               IN IF filePath \in uploads /\ unlinkThrows
                  THEN /\ last' = Response("DELETE /api/offers", 500,
                                           ErrorBody("Internal Server Error"))
                       /\ UNCHANGED <<offers, uploads, files>>
                  ELSE /\ uploads' = uploads \ {filePath}
                       /\ files' = Written("offers")
                       /\ offers' = JsonArray(FilterOutId(readOffers, id))
                       /\ last' = Response("DELETE /api/offers", 200, SuccessBody)
       /\ UNCHANGED <<names, wishlist, bets, clock, reqs, hist, track>>

\* DELETE /api/offers/:id; unlinkThrows: fs.unlinkSync fails on the file
DeleteOffers(pin, id, unlinkThrows) ==
    LET idx == FindIndex(readOffers, id)
    IN /\ IF pin # ADMIN_PIN
          THEN /\ last' = Response("DELETE /api/offers", 401, ErrorBody("Unauthorized"))
               /\ UNCHANGED <<offers, uploads, files>>
          ELSE IF idx = 0
          THEN /\ last' = Response("DELETE /api/offers", 404, ErrorBody("Not found"))
               /\ UNCHANGED <<offers, uploads, files>>
          ELSE LET filePath == ReplaceFirst(readOffers[idx].imageUrl, "/uploads/")
               IN /\ uploads' = IF filePath \in uploads /\ ~unlinkThrows
                                THEN uploads \ {filePath} ELSE uploads
                  /\ files' = Written("offers")
                  /\ offers' = JsonArray(FilterOutId(readOffers, id))
                  /\ last' = Response("DELETE /api/offers", 200, SuccessBody)
       /\ UNCHANGED <<names, wishlist, bets, clock, reqs, hist, track>>

(***************************************************************************)
(* Initial state: the files as the start-up code leaves them (lines        *)
(* 481-502, 711-714), or a names file kept from the earlier version        *)
(***************************************************************************)
Init ==
    /\ names \in InitialNames
    /\ hist = [i \in 1..Len(names) |-> NewHist(FALSE)]
    /\ wishlist = <<>>
    /\ bets = <<>>
    /\ offers = <<>>
    /\ uploads = {}
    /\ files = [c \in Collections |-> "ok"]
    /\ clock = 1
    /\ reqs = [p \in Slots |-> IdleReq]
    /\ last = Response("none", 0, <<>>)
    /\ track = NoTrack

(***************************************************************************)
(* Request bodies                                                          *)
(***************************************************************************)
GoodImage == <<"data:", "image", "/", "png", ";base64,", "iVBORw0KGgo">>
CorruptImage == <<"data:", "image", "/", "jpeg", ";base64,", "AAAA">>
ImageInputs ==
    {GoodImage, CorruptImage,
     <<"image", "/", "png", ";base64,", "iVBORw0KGgo">>,
     <<"data:", "image", "/", "png", ";base64,">>,
     <<"data:", "image", ";charset", ";base64,", "iVBORw0KGgo">>,
     <<"data:", "image", "/", "png", ";base64,", "iVBORw0KGgo", "\n">>,
     <<"iVBORw0KGgo">>}
EmailTexts == {Undefined, <<"a", "@", "b">>}
OneText == <<"x">>
GoodLink == <<"https:", "//", "shop">>
LinkTexts == {Undefined, GoodLink, <<"javascript:", "alert">>, <<"shop">>}
NumberTexts == {Undefined, <<"5", "0">>}

Records == Len(names) + Len(wishlist) + Len(bets) + Len(offers) + Cardinality(InFlight)

(***************************************************************************)
(* The voting specification: names and votes of the resolvable addresses.  *)
(* Only the creation of a name reads the clock, so the clock is let move   *)
(* only while a name can still be created.                                 *)
(***************************************************************************)
NextVote ==
    \/ Len(names) < MaxVoteNames /\ PostNames(AngleName)
    \/ \E id \in ClockIds : DeleteNames(ADMIN_PIN, id)
    \/ \E ip \in ResolvableIps, id \in ClockIds, type \in {"up", "down", "none"} :
          PostVote(ip, id, type)
    \/ Len(names) < MaxVoteNames /\ Tick

SpecVote == Init /\ [][NextVote]_vars

(***************************************************************************)
(* The specification of the unresolvable voter: requests without an        *)
(* address beside those of one address, on one record.  The counters have *)
(* no maximum in the program; the model stops counting votes at MaxVotes.  *)
(***************************************************************************)
Voters == {NoIp, Ip1}

\* the votes counted on the record that a vote for id goes to
CountedVotes(id) ==
    LET i == FindIndex(names, id)
    IN IF i = 0 THEN 0 ELSE names[i].votes + names[i].dislikes

NextUnknown ==
    \/ names = <<>> /\ PostNames(OneText)
    \/ \E ip \in Voters, id \in ClockIds, type \in {"up", "down"} :
          CountedVotes(id) < MaxVotes /\ PostVote(ip, id, type)
    \/ \E ip \in Voters, id \in ClockIds : PostVote(ip, id, "none")
    \/ names = <<>> /\ Tick

SpecUnknown == Init /\ [][NextUnknown]_vars

(***************************************************************************)
(* The offers specification: uploads in flight, listings and deletions     *)
(***************************************************************************)
NextOffers ==
    \/ \E p \in Slots, email \in EmailTexts, image \in ImageInputs :
          /\ Len(offers) + Cardinality(InFlight) < MaxOffers
          /\ \A q \in Slots : q < p => reqs[q].pc # "idle"
          /\ PostOffersStart(p, OneText, email, OneText, image)
    \/ \E p \in Slots : SharpToFile(p)
    \/ \E p \in Slots : PostOffersResume(p)
    \/ \E pin \in Pins, id \in ClockIds : DeleteOffers(pin, id, FALSE)
    \/ \E pin \in Pins : GetOffers(pin)
    \/ Tick

SpecOffers == Init /\ [][NextOffers]_vars

(***************************************************************************)
(* The administration specification: creation, listing and deletion in     *)
(* the four collections, and the PIN gate                                  *)
(***************************************************************************)
NextAdmin ==
    \/ \E pin \in Pins : VerifyPin(pin)
    \/ Records < MaxTotal /\ PostNames(OneText)
    \/ \E pin \in Pins, id \in ClockIds : DeleteNames(pin, id)
    \/ \E pin \in Pins, link \in {GoodLink, OneText} :
          Records < MaxTotal /\ PostWishlist(pin, OneText, link, Undefined, OneText)
    \/ \E pin \in Pins, id \in ClockIds : DeleteWishlist(pin, id)
    \/ Records < MaxTotal /\ PostBets(OneText, OneText, Undefined, <<"5", "0">>, <<"5">>)
    \/ \E pin \in Pins, id \in ClockIds : DeleteBets(pin, id)
    \/ Records < MaxTotal /\ PostOffersStart(1, OneText, <<"a", "@", "b">>, OneText, GoodImage)
    \/ SharpToFile(1)
    \/ PostOffersResume(1)
    \/ \E pin \in Pins, id \in ClockIds : DeleteOffers(pin, id, FALSE)
    \/ Tick

SpecAdmin == Init /\ [][NextAdmin]_vars

(***************************************************************************)
(* The wishlist specification: items and their reservation                 *)
(***************************************************************************)
ReserveTexts == {Undefined, <<" ">>, <<"A", "n", "n">>, Infinity}

NextWish ==
    \/ GetWishlist
    \/ \E pin \in {NoHeader, ADMIN_PIN}, note \in {Undefined, OneText} :
          Len(wishlist) < MaxTotal /\ PostWishlist(pin, OneText, GoodLink, Undefined, note)
    \/ \E id \in ReqIds, reservedBy \in ReserveTexts : PostReserve(id, reservedBy)
    \/ \E pin \in {NoHeader, ADMIN_PIN}, id \in ClockIds : DeleteWishlist(pin, id)
    \/ Tick

SpecWish == Init /\ [][NextWish]_vars

(***************************************************************************)
(* The files specification: every collection file may be removed or        *)
(* damaged between two requests                                            *)
(***************************************************************************)
\* one file at a time is lost
AllReadable == \A c \in Collections : files[c] = "ok"

NextFiles ==
    \/ GetNames
    \/ GetWishlist
    \/ GetBets
    \/ \E pin \in {NoHeader, ADMIN_PIN} : GetOffers(pin)
    \/ Records < MaxTotal /\ PostNames(OneText)
    \/ Records < MaxTotal /\ PostWishlist(ADMIN_PIN, OneText, GoodLink, Undefined, Undefined)
    \/ Records < MaxTotal /\ PostBets(OneText, OneText, Undefined, <<"5", "0">>, <<"5">>)
    \/ Records < MaxTotal /\ PostOffersStart(1, OneText, Undefined, OneText, GoodImage)
    \/ SharpToFile(1)
    \/ PostOffersResume(1)
    \/ \E id \in ClockIds : PostVote(Ip1, id, "up")
    \/ \E id \in ClockIds : PostReserve(id, Undefined)
    \/ \E id \in ClockIds : DeleteNames(ADMIN_PIN, id)
    \/ \E id \in ClockIds : DeleteWishlist(ADMIN_PIN, id)
    \/ \E id \in ClockIds : DeleteBets(ADMIN_PIN, id)
    \/ \E id \in ClockIds : DeleteOffers(ADMIN_PIN, id, FALSE)
    \/ \E c \in Collections : AllReadable /\ RemoveFile(c)
    \/ \E c \in Collections : AllReadable /\ CorruptFile(c)

SpecFiles == Init /\ [][NextFiles]_vars

(***************************************************************************)
(* The forms specification: the creation requests with well-formed and     *)
(* ill-formed bodies, and the reservation with its free text               *)
(***************************************************************************)
Long(n) == [i \in 1..n |-> "a"]
AngleText == <<" ", "<", "b", ">", " ">>

NameBodies ==
    {Undefined, <<>>, Long(MaxNameLen + 1), Long(MaxNameLen), AngleText,
     ArrayOf(<<"<", "b", ">">>)}

WishFields(name, link, price, note) ==
    [name |-> name, link |-> link, price |-> price, note |-> note]

WishBodies ==
    {WishFields(OneText, GoodLink, Undefined, Undefined),
     WishFields(AngleText, <<"https:", "//", "shop", "/", "<", ">">>, <<"<", "5">>, <<">">>),
     WishFields(Undefined, GoodLink, Undefined, Undefined),
     WishFields(OneText, Undefined, Undefined, Undefined),
     WishFields(OneText, <<>>, Undefined, Undefined),
     WishFields(Long(MaxWishNameLen + 1), GoodLink, Undefined, Undefined),
     WishFields(OneText, GoodLink, Long(MaxPriceLen + 1), Undefined),
     WishFields(OneText, GoodLink, Undefined, Long(MaxNoteLen + 1)),
     WishFields(OneText, <<"shop">>, Undefined, Undefined),
     WishFields(OneText, <<"https:">>, Undefined, Undefined),
     WishFields(OneText, <<"javascript:", "alert">>, Undefined, Undefined),
     WishFields(OneText, <<"ftp:", "//", "shop">>, Undefined, Undefined)}

BetFields(name, date, weight, size) ==
    [name |-> name, date |-> date, weight |-> weight, size |-> size]

BetBodies ==
    {BetFields(AngleText, <<"<", "1", ">">>, <<"5", "0">>, <<"5">>),
     BetFields(Undefined, OneText, <<"5", "0">>, <<"5">>),
     BetFields(OneText, Undefined, <<"5", "0">>, <<"5">>),
     BetFields(OneText, OneText, Undefined, <<"5">>),
     BetFields(OneText, OneText, <<"5", "0">>, Undefined),
     BetFields(Long(MaxNameLen + 1), OneText, <<"5", "0">>, <<"5">>)}

OfferFields(name, email, description, imageBase64) ==
    [name |-> name, email |-> email, description |-> description,
     imageBase64 |-> imageBase64]

OfferBodies ==
    {OfferFields(AngleText, <<"<", "a", "@", "b", ">">>, <<"<", "i", ">">>, GoodImage),
     OfferFields(OneText, Undefined, OneText, GoodImage),
     OfferFields(Undefined, Undefined, OneText, GoodImage),
     OfferFields(OneText, Undefined, Undefined, GoodImage),
     OfferFields(OneText, Undefined, OneText, Undefined),
     OfferFields(Long(MaxNameLen + 1), Undefined, OneText, GoodImage),
     OfferFields(OneText, Undefined, Long(MaxDescriptionLen + 1), GoodImage)}

ReserveBodies == {Undefined, <<"<", "i", ">">>, ArrayOf(<<"<", "i", ">">>)}

NextForms ==
    \/ \E name \in NameBodies : Records < MaxTotal /\ PostNames(name)
    \/ \E b \in WishBodies :
          Records < MaxTotal /\ PostWishlist(ADMIN_PIN, b.name, b.link, b.price, b.note)
    \/ \E reservedBy \in ReserveBodies : PostReserve(NowId, reservedBy)
    \/ \E b \in BetBodies :
          Records < MaxTotal /\ PostBets(b.name, b.date, Undefined, b.weight, b.size)
    \/ \E b \in OfferBodies :
          Records < MaxTotal
          /\ PostOffersStart(1, b.name, b.email, b.description, b.imageBase64)
    \/ SharpToFile(1)
    \/ PostOffersResume(1)

SpecForms == Init /\ [][NextForms]_vars

(***************************************************************************)
(* The legacy specification: votes on a names file kept from the earlier   *)
(* version of the server, which pushed the address of every voter, up or   *)
(* down, on the array votedIPs (lines 161-175), and on a record from       *)
(* before the ledger existed                                               *)
(***************************************************************************)
\* Ip1 voted down in the earlier version: the array lists it, votes is 0
DownVotedName ==
    [id |-> <<"0">>, name |-> <<"M", "i", "a">>, votes |-> 0, dislikes |-> 1,
     votedIPs |-> LedgerArray(<<Ip1>>)]

\* a record without the field votedIPs
BareName ==
    [id |-> <<"0">>, name |-> <<"E", "v", "a">>, votes |-> 1, dislikes |-> 0,
     votedIPs |-> LedgerMissing]

LegacyFiles == {<<LegacyName>>, <<DownVotedName>>, <<BareName>>}

InitLegacy ==
    /\ names \in LegacyFiles
    /\ hist = [i \in 1..Len(names) |-> NewHist(FALSE)]
    /\ wishlist = <<>>
    /\ bets = <<>>
    /\ offers = <<>>
    /\ uploads = {}
    /\ files = [c \in Collections |-> "ok"]
    /\ clock = 1
    /\ reqs = [p \in Slots |-> IdleReq]
    /\ last = Response("none", 0, <<>>)
    /\ track = NoTrack

AllVoters == {NoIp, Ip1, Ip2}

NextLegacy ==
    \/ \E ip \in AllVoters, type \in {"up", "down"} :
          CountedVotes(<<"0">>) < MaxVotes /\ PostVote(ip, <<"0">>, type)
    \/ \E ip \in AllVoters : PostVote(ip, <<"0">>, "none")

SpecLegacy == InitLegacy /\ [][NextLegacy]_vars

(***************************************************************************)
(* The specification of the refused requests: votes and reservations with  *)
(* a missing id, an id of no record, or a type that is no vote             *)
(***************************************************************************)
NextRefused ==
    \/ Records < MaxTotal /\ PostNames(OneText)
    \/ Records < MaxTotal
          /\ PostWishlist(ADMIN_PIN, OneText, GoodLink, Undefined, Undefined)
    \/ \E id \in ReqIds, type \in VoteTypes : PostVote(Ip1, id, type)
    \/ \E id \in ReqIds : PostReserve(id, Undefined)
    \/ Records < MaxTotal /\ Tick

SpecRefused == Init /\ [][NextRefused]_vars

(***************************************************************************)
(* The specification of the image files: uploads and deletions of offers   *)
(* where the deletion of the image file may fail                           *)
(***************************************************************************)
NextUnlink ==
    \/ \E p \in Slots :
          /\ Len(offers) + Cardinality(InFlight) < MaxOffers
          /\ \A q \in Slots : q < p => reqs[q].pc # "idle"
          /\ PostOffersStart(p, OneText, Undefined, OneText, GoodImage)
    \/ \E p \in Slots : SharpToFile(p)
    \/ \E p \in Slots : PostOffersResume(p)
    \/ \E id \in ClockIds, unlinkThrows \in BOOLEAN :
          DeleteOffers(ADMIN_PIN, id, unlinkThrows)
    \/ Tick

SpecUnlink == Init /\ [][NextUnlink]_vars

(***************************************************************************)
(* The specification of the records: creation, change, listing and         *)
(* deletion in the four collections while the clock moves on, so that the  *)
(* records of a collection differ.  The clock is read only at a creation   *)
(* and is let move only while a record can still be created.               *)
(***************************************************************************)
NextRecords ==
    \/ GetNames
    \/ GetWishlist
    \/ GetBets
    \/ \E pin \in {NoHeader, ADMIN_PIN} : GetOffers(pin)
    \/ Records < MaxTotal /\ PostNames(OneText)
    \/ Records < MaxTotal /\ PostWishlist(ADMIN_PIN, OneText, GoodLink, Undefined, Undefined)
    \/ Records < MaxTotal /\ PostBets(OneText, OneText, Undefined, <<"5", "0">>, <<"5">>)
    \/ Records < MaxTotal /\ PostOffersStart(1, OneText, <<"a", "@", "b">>, OneText, GoodImage)
    \/ SharpToFile(1)
    \/ PostOffersResume(1)
    \/ \E id \in ClockIds : PostVote(Ip1, id, "up")
    \/ \E id \in ClockIds : PostReserve(id, Undefined)
    \/ \E id \in ClockIds : DeleteNames(ADMIN_PIN, id)
    \/ \E id \in ClockIds : DeleteWishlist(ADMIN_PIN, id)
    \/ \E id \in ClockIds : DeleteBets(ADMIN_PIN, id)
    \/ \E id \in ClockIds : DeleteOffers(ADMIN_PIN, id, FALSE)
    \/ Records < MaxTotal /\ Tick

SpecRecords == Init /\ [][NextRecords]_vars

(***************************************************************************)
(* The specification of the answers: votes, which a synchronous handler    *)
(* answers, and uploads, which wait for the transcoding.  The              *)
(* transcoding of an upload settles (the library resolves or rejects its   *)
(* promise), and the event loop then resumes the handler: both steps are   *)
(* weakly fair.  No request has to arrive.                                 *)
(***************************************************************************)
VotedIds == {Undefined, <<"0">>, <<"1">>}

NextAnswers ==
    \/ \E id \in VotedIds, type \in {"up", "sideways"} : PostVote(Ip1, id, type)
    \/ \E p \in Slots, image \in {GoodImage, CorruptImage, OneText} :
          /\ Len(offers) + Cardinality(InFlight) < MaxOffers
          /\ \A q \in Slots : q < p => reqs[q].pc # "idle"
          /\ PostOffersStart(p, OneText, Undefined, OneText, image)
    \/ \E p \in Slots : SharpToFile(p)
    \/ \E p \in Slots : PostOffersResume(p)
    \/ \E id \in ClockIds : DeleteOffers(ADMIN_PIN, id, FALSE)
    \/ Len(offers) + Cardinality(InFlight) < MaxOffers /\ Tick

SpecAnswers ==
    /\ Init
    /\ [][NextAnswers]_vars
    /\ \A p \in Slots : WF_vars(SharpToFile(p)) /\ WF_vars(PostOffersResume(p))

(***************************************************************************)
(* The whole server                                                        *)
(***************************************************************************)
Next ==
    \/ \E pin \in Pins : VerifyPin(pin)
    \/ GetNames
    \/ \E name \in NameTexts : Records < MaxTotal /\ PostNames(name)
    \/ \E pin \in Pins, id \in ClockIds : DeleteNames(pin, id)
    \/ \E id \in ReqIds, type \in VoteTypes : PostVote(Ip1, id, type)
    \/ GetWishlist
    \/ \E pin \in Pins, name \in {Undefined, OneText}, link \in LinkTexts :
          Records < MaxTotal /\ PostWishlist(pin, name, link, Undefined, OneText)
    \/ \E id \in ReqIds, by \in {Undefined, OneText} : PostReserve(id, by)
    \/ \E pin \in Pins, id \in ClockIds : DeleteWishlist(pin, id)
    \/ GetBets
    \/ \E name \in {Undefined, OneText}, weight \in NumberTexts :
          Records < MaxTotal /\ PostBets(name, OneText, Undefined, weight, <<"5">>)
    \/ \E pin \in Pins, id \in ClockIds : DeleteBets(pin, id)
    \/ \E pin \in Pins : GetOffers(pin)
    \/ \E image \in {GoodImage, CorruptImage, OneText} :
          Records < MaxTotal /\ PostOffersStart(1, OneText, <<"a", "@", "b">>, OneText, image)
    \/ SharpToFile(1)
    \/ PostOffersResume(1)
    \/ \E pin \in Pins, id \in ClockIds, unlinkThrows \in BOOLEAN :
          DeleteOffers(pin, id, unlinkThrows)
    \/ Tick

Spec == Init /\ [][Next]_vars

(***************************************************************************)
(* Properties                                                              *)
(***************************************************************************)
Entries(v, choice) ==
    IF v.kind = "object" THEN {ip \in DOMAIN v.map : v.map[ip] = choice} ELSE {}

FromPostResolvable(i) == hist[i].viaPost /\ ~hist[i].unknownVoted

\* C1: for every name record created through POST /api/names and voted on by
\* resolvable addresses only, votes is the number of voters whose ledger
\* entry is "up" and dislikes the number of those whose entry is "down".
C1_CountersMatchLedger ==
    \A i \in 1..Len(names) :
        FromPostResolvable(i) =>
            /\ names[i].votes = Cardinality(Entries(names[i].votedIPs, "up"))
            /\ names[i].dislikes = Cardinality(Entries(names[i].votedIPs, "down"))

C1_Witness ==
    \E i \in 1..Len(names) :
        /\ FromPostResolvable(i)
        /\ names[i].votes = 1 /\ names[i].dislikes = 1
        /\ hist[i].lastChoice = [ip \in ResolvableIps |-> IF ip = Ip1 THEN "up" ELSE "down"]

\* C2: whatever sequence of votes a resolvable address sent for a record
\* created through POST /api/names, the net change its requests made to the
\* counters is its last choice: 1 in votes after "up", 1 in dislikes after
\* "down", nothing after "none"; never more than 1 in all.
C2_LastChoiceCounts ==
    \A i \in 1..Len(names) :
        hist[i].viaPost =>
            \A ip \in DOMAIN hist[i].lastChoice :
                /\ ip \in ResolvableIps
                /\ hist[i].up[ip] = (IF hist[i].lastChoice[ip] = "up" THEN 1 ELSE 0)
                /\ hist[i].down[ip] = (IF hist[i].lastChoice[ip] = "down" THEN 1 ELSE 0)
                /\ hist[i].up[ip] + hist[i].down[ip] <= 1

C2_Witness ==
    \E i \in 1..Len(names) :
        /\ hist[i].viaPost
        /\ track.stage = 3 /\ track.idx = i /\ track.ip = Ip1
        /\ hist[i].lastChoice = [ip \in ResolvableIps |-> IF ip = Ip1 THEN "none" ELSE "down"]

Abs(n) == IF n < 0 THEN 0 - n ELSE n

\* C3 as stated: after each of the steps up, down, none of one voter exactly
\* one of the two counters has moved by 1 and the other has not moved, and
\* after the third both are back at their values before the first.
C3_OneCounterPerStep ==
    track.stage \in {1, 2, 3} =>
        LET dv == names[track.idx].votes - track.pv
            dd == names[track.idx].dislikes - track.pd
        IN /\ \/ Abs(dv) = 1 /\ dd = 0
              \/ dv = 0 /\ Abs(dd) = 1
           /\ track.stage = 3 =>
                /\ names[track.idx].votes = track.v0
                /\ names[track.idx].dislikes = track.d0

\* C3, amended: up raises votes by 1 and leaves dislikes; the following down
\* lowers votes by 1 and raises dislikes by 1; the following none lowers
\* dislikes by 1 and leaves votes, and both counters are back at their
\* values before the first of the three votes.
C3_StepDeltas ==
    LET r == names[track.idx]
    IN /\ track.stage = 1 => r.votes = track.pv + 1 /\ r.dislikes = track.pd
       /\ track.stage = 2 => r.votes = track.pv - 1 /\ r.dislikes = track.pd + 1
       /\ track.stage = 3 =>
            /\ r.votes = track.pv /\ r.dislikes = track.pd - 1
            /\ r.votes = track.v0 /\ r.dislikes = track.d0

C3_Witness ==
    /\ track.stage = 3
    /\ names[track.idx].votes = track.v0
    /\ last.route = "POST /api/vote" /\ last.status = 200

HasEntry(ip, id) ==
    /\ FindIndex(names, id) # 0
    /\ PreviousVote(names[FindIndex(names, id)], ip) # "#undefined"

Absent(list, id) == FindIndex(list, id) = 0

Persisted == <<names, wishlist, bets, offers, uploads>>

\* C5: deleting, with the valid PIN, an id that is not in the collection is
\* answered 404 and leaves the collection as it was, in each of the four
\* collections.
C5_DeleteAbsentIs404 ==
    [][\A id \in ClockIds :
          /\ (Absent(names, id) /\ DeleteNames(ADMIN_PIN, id)) =>
                (last'.status = 404 /\ names' = names)
          /\ (Absent(wishlist, id) /\ DeleteWishlist(ADMIN_PIN, id)) =>
                (last'.status = 404 /\ wishlist' = wishlist)
          /\ (Absent(bets, id) /\ DeleteBets(ADMIN_PIN, id)) =>
                (last'.status = 404 /\ bets' = bets)
          /\ \A unlinkThrows \in BOOLEAN :
                (Absent(offers, id) /\ DeleteOffers(ADMIN_PIN, id, unlinkThrows)) =>
                    (last'.status = 404 /\ offers' = offers /\ uploads' = uploads)]_vars

WrongPins == {NoHeader, "0000"}

\* C6: on every protected route a request without the PIN header, or with a
\* PIN other than the configured one, is answered 401 and changes no
\* collection and no image file; GET /api/verify-pin answers 200 exactly
\* when the header is the configured PIN and 401 otherwise.
C6_GateRefuses ==
    [][/\ \A pin \in WrongPins, id \in ClockIds :
            ( \/ DeleteNames(pin, id)
              \/ DeleteWishlist(pin, id)
              \/ DeleteBets(pin, id)
              \/ \E unlinkThrows \in BOOLEAN : DeleteOffers(pin, id, unlinkThrows)
              \/ \E link \in {GoodLink, OneText} :
                    PostWishlist(pin, OneText, link, Undefined, OneText) ) =>
                (last'.status = 401 /\ Persisted' = Persisted /\ reqs' = reqs)
       /\ \A pin \in Pins :
            VerifyPin(pin) =>
                /\ last'.status = (IF pin = "2026" THEN 200 ELSE 401)
                /\ Persisted' = Persisted]_vars

C6_Witness ==
    /\ last.route = "DELETE /api/offers" /\ last.status = 401
    /\ offers # <<>> /\ uploads # {}

\* C7: the listing of the offers without the valid PIN holds every stored
\* offer, each without any key "email" and otherwise as stored; the listing
\* with the valid PIN holds every record as stored, its email included;
\* neither changes the stored collection.
C7_PublicListingHidesEmail ==
    [][\A pin \in Pins :
          GetOffers(pin) =>
              /\ offers' = offers
              /\ last'.status = 200
              /\ Len(last'.body) = Len(offers)
              /\ \A i \in 1..Len(offers) :
                    LET sent == last'.body[i]
                        stored == offers[i]
                    IN IF pin = "2026"
                       THEN sent = stored
                       ELSE /\ DOMAIN sent = (DOMAIN stored) \ {"email"}
                            /\ \A k \in DOMAIN sent : sent[k] = stored[k]]_vars

C7_Witness ==
    /\ last.route = "GET /api/offers public"
    /\ \E i \in 1..Len(offers) :
          /\ "email" \in DOMAIN offers[i]
          /\ offers[i].email = <<"a", "@", "b">>
          /\ i \in DOMAIN last.body
          /\ "email" \notin DOMAIN last.body[i]

\* the image strings of the inputs that are no data URL of the form
\* data:<mime>;base64,<payload>
NotDataUrls ==
    {<<"image", "/", "png", ";base64,", "iVBORw0KGgo">>,
     <<"data:", "image", "/", "png", ";base64,">>,
     <<"data:", "image", ";charset", ";base64,", "iVBORw0KGgo">>,
     <<"data:", "image", "/", "png", ";base64,", "iVBORw0KGgo", "\n">>,
     <<"iVBORw0KGgo">>}

\* C8: POST /api/offers with an image string that is no data URL is answered
\* 400, writes no file, adds no record, and leaves nothing in progress that
\* could write one later.
C8_NoDataUrlRejected ==
    [][\A p \in Slots, email \in EmailTexts, image \in NotDataUrls :
          PostOffersStart(p, OneText, email, OneText, image) =>
              /\ last'.route = "POST /api/offers" /\ last'.status = 400
              /\ uploads' = uploads /\ offers' = offers /\ reqs' = reqs]_vars

C8_Witness ==
    /\ last = Response("POST /api/offers", 400, ErrorBody("Invalid image format"))
    /\ offers # <<>>

\* C9: when the transcoding of an upload fails, the request is answered 400,
\* the collection is not changed and no image file exists for the id of the
\* offer afterwards.
C9_FailedTranscodeLeavesNothing ==
    [][\A p \in Slots :
          (reqs[p].pc = "rejected" /\ PostOffersResume(p)) =>
              /\ last'.status = 400
              /\ offers' = offers
              /\ FileName(reqs[p].id) \notin uploads']_vars

Referenced == {ReplaceFirst(offers[i].imageUrl, "/uploads/") : i \in 1..Len(offers)}

\* C10: whenever no upload is in progress, every offer's image reference
\* names a file of the uploads directory and every file of the directory is
\* referenced by an offer (no deletion of a file fails in SpecOffers).
C10_RecordsAndFilesAgree ==
    InFlight = {} => Referenced = uploads

\* C11 as stated: in every wishlist item reservedBy is non-null if and only
\* if reserved is true.
C11_ReservedByIffReserved ==
    \A i \in 1..Len(wishlist) :
        (wishlist[i].reservedBy # Null) <=> wishlist[i].reserved

ReserveResponse(r) == r.route = "POST /api/wishlist/reserve" /\ r.status = 200

\* C12: a reservation request on an unreserved item answers with the item
\* reserved and changes no other field of it; a reservation request for the
\* same id right after it (no request in between) stores and answers the
\* item as it was before the first: reserved false, reservedBy null, every
\* other field as before, whatever reservedBy values the two requests carried.
C12_ReserveTwiceRestores ==
    [][\A id \in ReqIds, reservedBy \in ReserveTexts :
          LET i == FindIndex(wishlist, id)
          IN (i # 0 /\ PostReserve(id, reservedBy)) =>
                /\ ReserveResponse(last')
                /\ last'.body = <<wishlist'[i]>>
                /\ \A j \in 1..Len(wishlist) : j # i => wishlist'[j] = wishlist[j]
                /\ Len(wishlist') = Len(wishlist)
                /\ ~wishlist[i].reserved =>
                      /\ wishlist'[i].reserved
                      /\ wishlist'[i] = [wishlist[i] EXCEPT
                                           !.reserved = TRUE,
                                           !.reservedBy = wishlist'[i].reservedBy]
                /\ ( /\ ReserveResponse(last)
                     /\ last.body[1].id = id
                     /\ last.body[1].reserved ) =>
                      wishlist'[i] = [last.body[1] EXCEPT
                                        !.reserved = FALSE, !.reservedBy = Null]
      ]_vars

C12_Witness ==
    /\ ReserveResponse(last)
    /\ ~last.body[1].reserved /\ last.body[1].reservedBy = Null
    /\ \E i \in 1..Len(wishlist) : wishlist[i] = last.body[1] /\ wishlist[i].note = OneText

DistinctIds(list) ==
    \A i, j \in 1..Len(list) : i # j => list[i].id # list[j].id

\* C13 as stated: within each collection the ids of the records are pairwise
\* distinct, also when two creations read the same clock value.
C13_IdsPairwiseDistinct ==
    /\ DistinctIds(names)
    /\ DistinctIds(wishlist)
    /\ DistinctIds(bets)
    /\ DistinctIds(offers)

VotedUp(i, ip) == ip \in DOMAIN hist[i].lastChoice /\ hist[i].lastChoice[ip] = "up"

Unreadable(c) == files[c] \in {"missing", "corrupt"}

\* C15: while the file of a collection is missing or does not parse, every
\* request that reads the collection is answered as for the empty
\* collection: a listing answers 200 with the empty array, a creation
\* answers 201 and leaves the new record alone in the collection, a vote, a
\* reservation or a deletion finds no record; no request is answered 500.
C15_UnreadableFileReadsEmpty ==
    [][ /\ last'.status # 500
        /\ (Unreadable("names") /\ GetNames) =>
              last' = Response("GET /api/names", 200, <<>>)
        /\ (Unreadable("wishlist") /\ GetWishlist) =>
              last' = Response("GET /api/wishlist", 200, <<>>)
        /\ (Unreadable("bets") /\ GetBets) =>
              last' = Response("GET /api/bets", 200, <<>>)
        /\ \A pin \in {NoHeader, ADMIN_PIN} :
              (Unreadable("offers") /\ GetOffers(pin)) =>
                 /\ last'.status = 200 /\ last'.body = <<>>
        /\ (Unreadable("names") /\ PostNames(OneText)) =>
              /\ last'.status = 201 /\ names' = last'.body
        /\ (Unreadable("wishlist")
              /\ PostWishlist(ADMIN_PIN, OneText, GoodLink, Undefined, Undefined)) =>
              /\ last'.status = 201 /\ wishlist' = last'.body
        /\ (Unreadable("bets")
              /\ PostBets(OneText, OneText, Undefined, <<"5", "0">>, <<"5">>)) =>
              /\ last'.status = 201 /\ bets' = last'.body
        /\ (Unreadable("offers") /\ reqs[1].pc = "resolved" /\ PostOffersResume(1)) =>
              /\ last'.status = 201 /\ offers' = last'.body
        /\ \A id \in ClockIds :
              /\ (Unreadable("names") /\ PostVote(Ip1, id, "up")) =>
                    /\ last'.status = 404 /\ UNCHANGED <<names, files>>
              /\ (Unreadable("names") /\ DeleteNames(ADMIN_PIN, id)) =>
                    /\ last'.status = 200 /\ names' = <<>>
              /\ (Unreadable("wishlist") /\ PostReserve(id, Undefined)) =>
                    /\ last'.status = 404 /\ UNCHANGED <<wishlist, files>>
              /\ (Unreadable("wishlist") /\ DeleteWishlist(ADMIN_PIN, id)) =>
                    /\ last'.status = 404 /\ UNCHANGED <<wishlist, files>>
              /\ (Unreadable("bets") /\ DeleteBets(ADMIN_PIN, id)) =>
                    /\ last'.status = 404 /\ UNCHANGED <<bets, files>>
              /\ (Unreadable("offers") /\ DeleteOffers(ADMIN_PIN, id, FALSE)) =>
                    /\ last'.status = 404 /\ UNCHANGED <<offers, files, uploads>>
      ]_vars

\* a names file that held a record has been damaged and the listing has
\* answered with the empty array
C15_Witness ==
    /\ files["names"] = "corrupt" /\ Len(names) > 0
    /\ last = Response("GET /api/names", 200, <<>>)

\* the ill-formed bodies, in the words of the validation rules
Missing(v) == v = Undefined \/ v = <<>>
TooLong(v, max) == IsString(v) /\ Len(v) > max
WebLinks == {GoodLink, <<"https:", "//", "shop", "/", "<", ">">>}

IllFormedName(name) == Missing(name) \/ TooLong(name, 50)

IllFormedWish(b) ==
    \/ Missing(b.name) \/ Missing(b.link)
    \/ TooLong(b.name, 200) \/ TooLong(b.price, 50) \/ TooLong(b.note, 500)
    \/ b.link \notin WebLinks

IllFormedBet(b) ==
    \/ Missing(b.name) \/ Missing(b.date) \/ Missing(b.weight) \/ Missing(b.size)
    \/ TooLong(b.name, 50)

IllFormedOffer(b) ==
    \/ Missing(b.name) \/ Missing(b.description) \/ Missing(b.imageBase64)
    \/ TooLong(b.name, 50) \/ TooLong(b.description, 1000)

NoAngles(v) == \A k \in 1..Len(v) : v[k] \notin {"<", ">"}

\* C17 as stated: no stored free-text field holds the character "<" or ">",
\* whatever the request bodies carried.
C17_NoAngleBracketsStored ==
    /\ \A i \in 1..Len(names) : NoAngles(names[i].name)
    /\ \A i \in 1..Len(wishlist) :
          /\ NoAngles(wishlist[i].name) /\ NoAngles(wishlist[i].link)
          /\ NoAngles(wishlist[i].price) /\ NoAngles(wishlist[i].note)
          /\ NoAngles(wishlist[i].reservedBy)
    /\ \A i \in 1..Len(bets) :
          NoAngles(bets[i].name) /\ NoAngles(bets[i].date) /\ NoAngles(bets[i].time)
    /\ \A i \in 1..Len(offers) :
          /\ NoAngles(offers[i].name) /\ NoAngles(offers[i].description)
          /\ "email" \in DOMAIN offers[i] => NoAngles(offers[i].email)

\* C18: when a resolvable address sends for a name the choice (up or down)
\* that it sent in the vote accepted just before on that name, the request
\* is answered 200 with the record and the record (votes, dislikes, ledger)
\* stays exactly as the first request left it.
C18_RevoteChangesNothing ==
    [][\A ip \in ResolvableIps, id \in ClockIds, type \in {"up", "down"} :
          LET i == FindIndex(names, id)
          IN ( /\ i # 0
               /\ hist[i].latest.ip = ip /\ hist[i].latest.type = type
               /\ PostVote(ip, id, type) ) =>
                /\ names' = names
                /\ last' = Response("POST /api/vote", 200, <<names[i]>>)
      ]_vars

\* the down vote of Ip2 has been sent twice in a row on a record that Ip1
\* voted up
C18_Witness ==
    \E i \in 1..Len(names) :
        /\ hist[i].viaPost
        /\ hist[i].latest = [ip |-> Ip2, type |-> "down", again |-> TRUE]
        /\ names[i].votes = 1 /\ names[i].dislikes = 1
        /\ PreviousVote(names[i], Ip2) = "down"

LedgerMap(rec) == NormalizeLedger(rec.votedIPs).map

\* C19: a vote "none" on an existing name is answered 200, removes the
\* entry of the voter and no other, raises no counter, and lowers by 1 only
\* the counter of the voter's previous choice, and only for a resolvable
\* voter that had one (a counter at 0 stays at 0); from a voter without
\* entry it leaves votes, dislikes and the ledger entries as they were.
C19_NoneOnlyWithdraws ==
    [][\A ip \in Voters, id \in ClockIds :
          LET i == FindIndex(names, id)
              previous == PreviousVote(names[i], ClientIP(ip))
              took(choice) == IF ip # NoIp /\ previous = choice THEN 1 ELSE 0
          IN (i # 0 /\ PostVote(ip, id, "none")) =>
                /\ last'.status = 200
                /\ LedgerMap(names'[i]) = MapDelete(LedgerMap(names[i]), ClientIP(ip))
                /\ names'[i].votes = Max(0, names[i].votes - took("up"))
                /\ names'[i].dislikes = Max(0, names[i].dislikes - took("down"))
                /\ previous = "#undefined" =>
                      /\ names'[i].votes = names[i].votes
                      /\ names'[i].dislikes = names[i].dislikes
                      /\ LedgerMap(names'[i]) = LedgerMap(names[i])
      ]_vars

\* Ip1 has withdrawn its up vote from a record that also counts an up vote
\* of the unresolvable voter: one of the two votes is left
C19_Witness ==
    \E i \in 1..Len(names) :
        /\ hist[i].viaPost
        /\ hist[i].latest = [ip |-> Ip1, type |-> "none", again |-> FALSE]
        /\ hist[i].unknownUp = 1 /\ hist[i].up[Ip1] = 0
        /\ names[i].votes = 1 /\ names[i].dislikes = 0
        /\ Ip1 \notin DOMAIN LedgerMap(names[i])

UnknownEntries(v) ==
    IF v.kind = "array"
    THEN Cardinality({k \in 1..Len(v.items) : v.items[k] = "unknown"})
    ELSE IF "unknown" \in DOMAIN v.map THEN 1 ELSE 0

\* on a record created through POST /api/names each counter is the number
\* of resolvable entries of that choice plus the number of votes of that
\* choice sent without an address; the ledger has at most one "unknown"
UnknownCounted ==
    \A i \in 1..Len(names) :
        /\ UnknownEntries(names[i].votedIPs) <= 1
        /\ hist[i].viaPost =>
              /\ names[i].votes =
                    Cardinality(Entries(names[i].votedIPs, "up") \ {"unknown"})
                    + hist[i].unknownUp
              /\ names[i].dislikes =
                    Cardinality(Entries(names[i].votedIPs, "down") \ {"unknown"})
                    + hist[i].unknownDown

\* C20: every up or down vote of the unresolvable voter raises the counter
\* of that choice by 1 and leaves the other counter, whether or not the
\* ledger already holds an "unknown" entry; so on a record created through
\* POST /api/names each counter is the number of resolvable entries of that
\* choice plus the number of such votes, while the ledger holds at most one
\* "unknown" entry; a "none" of the unresolvable voter removes that entry
\* and changes no counter.
C20_UnknownBypassesLedger ==
    [][ /\ UnknownCounted'
        /\ \A id \in ClockIds, type \in {"up", "down", "none"} :
              LET i == FindIndex(names, id)
              IN (i # 0 /\ PostVote(NoIp, id, type)) =>
                    /\ last'.status = 200
                    /\ names'[i].votes = names[i].votes + (IF type = "up" THEN 1 ELSE 0)
                    /\ names'[i].dislikes =
                          names[i].dislikes + (IF type = "down" THEN 1 ELSE 0)
                    /\ PreviousVote(names'[i], "unknown") =
                          (IF type = "none" THEN "#undefined" ELSE type)
      ]_vars

\* two up votes of the unresolvable voter have been counted and its "none"
\* has removed the entry and left the counter at 2
C20_Witness ==
    \E i \in 1..Len(names) :
        /\ hist[i].viaPost
        /\ hist[i].unknownUp = 2
        /\ hist[i].latest.ip = "unknown" /\ hist[i].latest.type = "none"
        /\ names[i].votes = 2
        /\ "unknown" \notin DOMAIN LedgerMap(names[i])

\* the addresses listed in a ledger of either form
Listed(v) == IF v.kind = "array" THEN SeqRange(v.items) ELSE DOMAIN v.map

\* the entries that a vote of clientIP must leave: those of everybody else,
\* a legacy entry read as "up"
OthersAsUp(v, clientIP) ==
    [k \in Listed(v) \ {clientIP} |-> IF v.kind = "array" THEN "up" ELSE v.map[k]]

Restrict(m, S) == [k \in (DOMAIN m) \cap S |-> m[k]]

LegacyStep(voters) ==
    \A ip \in voters, type \in {"up", "down", "none"} :
        LET c == ClientIP(ip)
            before == names[1]
            after == names'[1]
            legacyVoter == before.votedIPs.kind = "array" /\ c \in Listed(before.votedIPs)
        IN PostVote(ip, <<"0">>, type) =>
              /\ after.votedIPs.kind = "object"
              /\ Restrict(after.votedIPs.map, Listed(after.votedIPs) \ {c})
                    = OthersAsUp(before.votedIPs, c)
              /\ MapGet(after.votedIPs.map, c) = (IF type = "none" THEN "#undefined" ELSE type)
              /\ legacyVoter =>
                    /\ after.votes = Max(0, before.votes - 1) + (IF type = "up" THEN 1 ELSE 0)
                    /\ after.dislikes = before.dislikes + (IF type = "down" THEN 1 ELSE 0)

\* C21 as stated: a vote on a record converts an array ledger to the map
\* with the same identities, each "up", and a missing ledger to the empty
\* map, before the vote is applied; the stored ledger is a map afterwards;
\* the vote of any identity listed in the array first takes 1 off votes
\* (floored at 0).
C21_LegacyVoterDecrements ==
    [][LegacyStep(AllVoters)]_vars

\* C21 amended: the same, the decrement for the resolvable identities of the
\* array; the vote of the identity "unknown" takes nothing off, also when
\* the array lists "unknown".
C21_ResolvableLegacyVoterDecrements ==
    [][ /\ LegacyStep(ResolvableIps)
        /\ \A type \in {"up", "down", "none"} :
              PostVote(NoIp, <<"0">>, type) =>
                 /\ names'[1].votedIPs.kind = "object"
                 /\ Restrict(names'[1].votedIPs.map, Listed(names'[1].votedIPs) \ {"unknown"})
                       = OthersAsUp(names[1].votedIPs, "unknown")
                 /\ names'[1].votes = names[1].votes + (IF type = "up" THEN 1 ELSE 0)
                 /\ names'[1].dislikes = names[1].dislikes + (IF type = "down" THEN 1 ELSE 0)
      ]_vars

\* the first vote on the record that lists Ip1 with votes 0 was the down
\* vote of Ip1: votes stayed 0, dislikes rose to 2, the ledger is the map
C21_Witness ==
    /\ names[1].name = DownVotedName.name
    /\ names[1].votedIPs = LedgerObject([ip \in {Ip1} |-> "down"])
    /\ names[1].votes = 0 /\ names[1].dislikes = 2
    /\ hist[1].lastChoice = [ip \in {Ip1} |-> "down"]
    /\ hist[1].unknownVoted = FALSE

\* C29: votes and dislikes of every name record are never negative, also on
\* records whose legacy ledger, read as all "up", disagrees with the counters.
C29_CountersNeverNegative ==
    \A i \in 1..Len(names) : names[i].votes >= 0 /\ names[i].dislikes >= 0

\* Ip1, listed in the array of a record with votes 0, has withdrawn: the
\* decrement of votes was floored
C29_Witness ==
    /\ names[1].name = DownVotedName.name
    /\ hist[1].latest = [ip |-> Ip1, type |-> "none", again |-> FALSE]
    /\ hist[1].lastChoice = [ip \in {Ip1} |-> "none"]
    /\ hist[1].up[Ip1] = 0
    /\ names[1].votes = 0 /\ names[1].dislikes = 1
    /\ names[1].votedIPs = LedgerObject(EmptyMap)

\* C22: POST /api/vote with a missing id or a type outside up, down, none
\* is answered 400; POST /api/vote and POST /api/wishlist/reserve with an id
\* of no record are answered 404; nothing stored changes in these cases.
C22_RefusedRequestsChangeNothing ==
    [][ /\ \A id \in ReqIds, type \in VoteTypes :
             PostVote(Ip1, id, type) =>
                 /\ (id = Undefined \/ type \notin {"up", "down", "none"}) =>
                        last'.status = 400 /\ Persisted' = Persisted
                 /\ (id # Undefined /\ type \in {"up", "down", "none"}
                                     /\ Absent(names, id)) =>
                        last'.status = 404 /\ Persisted' = Persisted
        /\ \A id \in ClockIds :
             (PostReserve(id, Undefined) /\ Absent(wishlist, id)) =>
                 last'.status = 404 /\ Persisted' = Persisted ]_vars

\* a vote for an id of no record has been answered 404 while a record with a
\* counted vote exists
C22_Witness ==
    /\ last.route = "POST /api/vote"
    /\ last.status = 404
    /\ Len(names) = 1
    /\ names[1].votes + names[1].dislikes = 1
    /\ names[1].id # NowId

\* the files that the uploads in progress have written or may still write
PendingFiles == {FileName(reqs[p].id) : p \in InFlight}

\* an upload was transcoded and answered, no deletion took its record, and
\* the collection does not hold its record
LostUpdate == \E f \in uploads : f \notin Referenced /\ f \notin PendingFiles

\* the upload answered last began before another one whose file is stored,
\* and nothing is in progress: the two were handled at the same time and
\* both have been answered 201
OverlappingUploadsAnswered ==
    /\ InFlight = {}
    /\ last.route = "POST /api/offers" /\ last.status = 201
    /\ \E f \in uploads : ParseInt(f) > ParseInt(last.body[1].id)

C24_DeleteOfferSwallowsFileFailure ==
    [][\A id \in ClockIds, unlinkThrows \in BOOLEAN :
          (~Absent(offers, id) /\ DeleteOffers(ADMIN_PIN, id, unlinkThrows)) =>
              /\ last' = Response("DELETE /api/offers", 200, SuccessBody)
              /\ offers' = JsonArray(FilterOutId(offers, id))
              /\ Absent(offers', id)]_vars

\* the last offer has been deleted with the answer 200 while its image file
\* is still in the directory: its deletion failed
C24_Witness ==
    /\ last = Response("DELETE /api/offers", 200, SuccessBody)
    /\ offers = <<>>
    /\ InFlight = {}
    /\ uploads # {}

\* every collection other than c, with its file, is as before the step; the
\* uploads directory goes with the offers
OnlyChanges(c) ==
    /\ c # "names" => names' = names /\ files'["names"] = files["names"]
    /\ c # "wishlist" => wishlist' = wishlist /\ files'["wishlist"] = files["wishlist"]
    /\ c # "bets" => bets' = bets /\ files'["bets"] = files["bets"]
    /\ c # "offers" => /\ offers' = offers /\ uploads' = uploads
                       /\ files'["offers"] = files["offers"]

\* C25: a request to the names or vote endpoints changes nothing but the
\* names, and likewise the requests to the wishlist, bets and offers
\* endpoints (the uploads directory belongs to the offers); the listings
\* change nothing.
C25_OneCollectionPerRequest ==
    [][ /\ OnlyChanges("names")
           \/ ~(\/ PostNames(OneText)
                 \/ (\E id \in ClockIds : DeleteNames(ADMIN_PIN, id))
                 \/ (\E id \in ClockIds : PostVote(Ip1, id, "up")))
        /\ OnlyChanges("wishlist")
           \/ ~(\/ PostWishlist(ADMIN_PIN, OneText, GoodLink, Undefined, Undefined)
                 \/ (\E id \in ClockIds : PostReserve(id, Undefined))
                 \/ (\E id \in ClockIds : DeleteWishlist(ADMIN_PIN, id)))
        /\ OnlyChanges("bets")
           \/ ~(\/ PostBets(OneText, OneText, Undefined, <<"5", "0">>, <<"5">>)
                 \/ (\E id \in ClockIds : DeleteBets(ADMIN_PIN, id)))
        /\ OnlyChanges("offers")
           \/ ~(\/ PostOffersStart(1, OneText, Undefined, OneText, GoodImage)
                 \/ SharpToFile(1)
                 \/ PostOffersResume(1)
                 \/ (\E id \in ClockIds : DeleteOffers(ADMIN_PIN, id, FALSE)))
        /\ OnlyChanges("none")
           \/ ~(\/ GetNames \/ GetWishlist \/ GetBets
                 \/ (\E pin \in {NoHeader, ADMIN_PIN} : GetOffers(pin)))
      ]_vars

\* a wishlist item has been deleted while a name is stored
C25_Witness ==
    /\ last = Response("DELETE /api/wishlist", 200, SuccessBody)
    /\ wishlist = <<>>
    /\ Len(names) = 1 /\ names[1].name = OneText
    /\ files["names"] = "ok"

\* the j-th of the records of list whose id is not id
KeptIndex(list, id, j) ==
    CHOOSE i \in 1..Len(list) :
        /\ list[i].id # id
        /\ Cardinality({k \in 1..i : list[k].id # id}) = j

\* after is list without the records with the given id, the others in their
\* order
RemovedById(list, id, after) ==
    /\ Len(after) = Cardinality({k \in 1..Len(list) : list[k].id # id})
    /\ \A j \in 1..Len(after) : after[j] = list[KeptIndex(list, id, j)]

\* C26: the bets change only by a POST /api/bets answered 201, which appends
\* the record it returns, and by a DELETE /api/bets/:id with the PIN answered
\* 200, which removes the records with that id; every other bet keeps its
\* place and all its field values.
C26_BetsImmutable ==
    [][ \/ readBets' = readBets
        \/ /\ PostBets(OneText, OneText, Undefined, <<"5", "0">>, <<"5">>)
           /\ last'.status = 201
           /\ readBets' = Append(readBets, last'.body[1])
        \/ \E id \in ClockIds :
              /\ DeleteBets(ADMIN_PIN, id)
              /\ last'.status = 200
              /\ RemovedById(readBets, id, readBets') ]_vars

\* the bet created at clock 1 is still as created after a second bet was
\* created at clock 2 and deleted
C26_Witness ==
    /\ last = Response("DELETE /api/bets", 200, SuccessBody)
    /\ clock = 2
    /\ files["bets"] = "ok"
    /\ bets = <<[id |-> <<"1">>, name |-> OneText, date |-> OneText,
                 time |-> <<"1", "2", ":", "0", "0">>, weight |-> 50, size |-> 5,
                 timestamp |-> <<"1", "Z">>]>>

\* record o without its field email
WithoutEmail(o) == [k \in (DOMAIN o) \ {"email"} |-> o[k]]

\* the step is a creation in list answered 201 with the record that is now
\* the last of the list, the others before it as they were
Appended(list, after) ==
    /\ last'.status = 201
    /\ after = Append(list, last'.body[1])

\* the step ends with an answer of the given route
To(route) == last'.route = route

\* the step ends with the answer 200 of the given route
Answered(route) == last'.route = route /\ last'.status = 200

\* C27: in each collection a creation is answered 201 with the new record,
\* which is appended at the end (a new name with votes 0 and dislikes 0); a
\* deletion answered 200 removes the records with the given id and keeps the
\* others in their order; a listing returns the sequence as stored (the
\* public listing of the offers without the field email).
C27_OrderedSequences ==
    [][ /\ (To("POST /api/names") /\ PostNames(OneText)) =>
              /\ Appended(names, names')
              /\ last'.body[1].votes = 0 /\ last'.body[1].dislikes = 0
        /\ (To("POST /api/wishlist")
              /\ PostWishlist(ADMIN_PIN, OneText, GoodLink, Undefined, Undefined)) =>
              Appended(wishlist, wishlist')
        /\ (To("POST /api/bets")
              /\ PostBets(OneText, OneText, Undefined, <<"5", "0">>, <<"5">>)) =>
              Appended(bets, bets')
        /\ (To("POST /api/offers") /\ reqs[1].pc = "resolved" /\ PostOffersResume(1)) =>
              Appended(offers, offers')
        /\ \A id \in ClockIds :
              /\ (Answered("DELETE /api/names") /\ DeleteNames(ADMIN_PIN, id)) =>
                     RemovedById(names, id, names')
              /\ (Answered("DELETE /api/wishlist") /\ DeleteWishlist(ADMIN_PIN, id)) =>
                     RemovedById(wishlist, id, wishlist')
              /\ (Answered("DELETE /api/bets") /\ DeleteBets(ADMIN_PIN, id)) =>
                     RemovedById(bets, id, bets')
              /\ (Answered("DELETE /api/offers") /\ DeleteOffers(ADMIN_PIN, id, FALSE)) =>
                     RemovedById(offers, id, offers')
        /\ (To("GET /api/names") /\ GetNames) => last'.status = 200 /\ last'.body = names
        /\ (To("GET /api/wishlist") /\ GetWishlist) => last'.status = 200 /\ last'.body = wishlist
        /\ (To("GET /api/bets") /\ GetBets) => last'.status = 200 /\ last'.body = bets
        /\ (To("GET /api/offers admin") /\ GetOffers(ADMIN_PIN)) =>
              last'.status = 200 /\ last'.body = offers
        /\ (To("GET /api/offers public") /\ GetOffers(NoHeader)) =>
              /\ last'.status = 200
              /\ last'.body = [i \in 1..Len(offers) |-> WithoutEmail(offers[i])]
      ]_vars

\* the two names are listed in the order of their creation
C27_Witness ==
    /\ last.route = "GET /api/names" /\ last.status = 200
    /\ last.body = names
    /\ Len(names) = 2
    /\ names[1].id = <<"1">> /\ names[2].id = <<"2">>

\* a step sends at most one answer, and an upload is answered by the step
\* that ends it and by no step before: it starts without an answer unless
\* it is refused at once, the transcoding answers nothing, and the step that
\* frees the slot answers 201 or 400
OneAnswerPerRequest ==
    /\ \A p \in Slots :
          /\ (reqs[p].pc = "idle" /\ reqs'[p].pc # "idle") =>
                 reqs'[p].pc = "await" /\ last' = last
          /\ (reqs[p].pc = "await" /\ reqs'[p] # reqs[p]) =>
                 reqs'[p].pc \in {"resolved", "rejected"} /\ last' = last
          /\ (reqs[p].pc \in {"resolved", "rejected"} /\ reqs'[p] # reqs[p]) =>
                 /\ reqs'[p] = IdleReq
                 /\ last'.route = "POST /api/offers"
                 /\ last'.status = IF reqs[p].pc = "resolved" THEN 201 ELSE 400
    /\ \A image \in {GoodImage, CorruptImage, OneText} :
          (reqs[1].pc = "idle" /\ PostOffersStart(1, OneText, Undefined, OneText, image)) =>
              \/ reqs'[1].pc = "await"
              \/ last'.route = "POST /api/offers" /\ last'.status = 400
    /\ \A id \in VotedIds, type \in {"up", "sideways"} :
          PostVote(Ip1, id, type) =>
              last'.route = "POST /api/vote" /\ last'.status \in {200, 400, 404}

\* C28: every request is answered, once: the synchronous handlers answer in
\* their one step, and every upload that waits for its transcoding is
\* eventually answered, whether the transcoding succeeds or fails.
C28_EveryRequestAnswered ==
    /\ [][OneAnswerPerRequest]_vars
    /\ \A p \in Slots : (reqs[p].pc # "idle") ~> (reqs[p].pc = "idle")

\* an upload whose transcoding failed has been answered 400 while another
\* upload is still waiting
C28_Witness ==
    /\ last = Response("POST /api/offers", 400, ErrorBody("Invalid image data"))
    /\ reqs[1].pc = "idle"
    /\ reqs[2].pc = "await"

====
